---------------------------- MODULE Spec2Model ----------------------------
(***************************************************************************)
(* Eaton xStorage Home integration: the transport/auth client              *)
(* (api.py), the snapshot coordinator (coordinator.py) and the             *)
(* settings-patch / optimistic-state protocol of the entities              *)
(* (number.py, switch.py, select.py, button.py) and the config and         *)
(* options flows (config_flow.py).                                         *)
(*                                                                         *)
(* The specifications share one set of variables:                          *)
(*   SpecReq    make_request and connect, two concurrent callers           *)
(*   SpecSetup  async_setup_entry, then the requests of SpecReq            *)
(*   SpecPoll   one poll cycle after another of _async_update_data         *)
(*   SpecPatch  entity operations against the device and the coordinator   *)
(*   SpecFlow   submissions of the setup form and of the options form      *)
(*   SpecRace   two number writes at the same time (SpecRaceFair: with     *)
(*              successful poll cycles recurring)                          *)
(* Each leaves the variables of the other layers unchanged.                *)
(***************************************************************************)
EXTENDS Integers, Sequences, FiniteSets, TLC

VARIABLES
    \* ---- transport/auth client (api.py) ----
    access_token,        \* EatonBatteryAPI.access_token; 0 is None
    token_expiration,    \* EatonBatteryAPI.token_expiration in minutes; NoExpiry is None
    store,               \* the persisted token record (Store)
    now,                 \* datetime.utcnow(), in minutes
    issued,              \* tokens the device has issued so far
    rq,                  \* per caller: the make_request call in progress
    setup,               \* async_setup_entry: where it stands, what it saw
    flow,                \* config/options flow: the last submission and its result
    event,               \* event.py: the notification event entity and what it is shown
    \* ---- snapshot coordinator (coordinator.py) ----
    data,                \* coordinator.data: the published snapshot
    last_update_success, \* coordinator.last_update_success
    results,             \* the private mapping a running cycle assembles
    fetched,             \* what each fetch of the running cycle yielded
    pos,                 \* 0: no cycle running; k: the k-th fetch is next
    faults,              \* non-payload fetch outcomes seen so far
    \* ---- device and entities (number.py, switch.py, select.py, button.py) ----
    device_settings,     \* the settings document the device holds
    device_power,        \* the device's powerState
    optimistic,          \* per entity: _optimistic_value / _optimistic_state
    task,                \* per task: the entity operation in progress
    ops_started          \* entity operations started so far

authVars  == <<access_token, token_expiration, store, now, issued, rq>>
pollVars  == <<results, fetched, pos, faults>>
snapVars  == <<data, last_update_success>>
patchVars == <<device_settings, device_power, optimistic, task, ops_started>>
vars == <<access_token, token_expiration, store, now, issued, rq,
          data, last_update_success, results, fetched, pos, faults,
          device_settings, device_power, optimistic, task, ops_started, setup,
          flow, event>>

(***************************************************************************)
(* Bounds of the exploration.                                              *)
(***************************************************************************)
MaxTokens == 3
MaxNow == 60
MaxFaults == 2
MaxOps == 2
MaxSetups == 2
MaxSubmits == 2

(***************************************************************************)
(* Transport/auth client: api.py                                           *)
(***************************************************************************)
TokenLifetime == 55
NoToken == 0
NoExpiry == -1
NoStatus == -1
TickSteps == {30}

\* The two tasks that call make_request concurrently: the coordinator's poll
\* and an entity command.
Callers == {"poll", "command"}

NoRecord == [access_token |-> NoToken, token_expiration |-> NoExpiry]

\* What the device answers to a request: an HTTP response with a status and
\* a JSON or non-JSON body, or no response at all (aiohttp.ClientError).
NetErr == [status |-> 0, json |-> FALSE]
NoResp == [status |-> NoStatus, json |-> FALSE]
HttpResponses == [status : {200, 401, 500}, json : BOOLEAN]
Responses == HttpResponses \cup {NetErr}

\* What make_request hands to its caller.
NoResult == [kind |-> "none", status |-> NoStatus]
JsonBody(st) == [kind |-> "json", status |-> st]
Failure(st) == [kind |-> "failure", status |-> st]
Raised(k) == [kind |-> k, status |-> NoStatus]
ConnectErrors == {"auth_error", "connection_error", "timeout_error"}

\* What the device answers to the sign-in POST: the status, whether the body
\* is JSON, and what the JSON holds ("successful", a token under "result",
\* an "error" object with its "description" and "errCode", "" when the key
\* is missing); or no response at all, and then the exception session.post
\* raises: an aiohttp.ClientError (name resolution, refused connection,
\* connect timeout) or the asyncio.TimeoutError of the session's total
\* timeout, which is not an aiohttp.ClientError.
SignInGranted ==
    [status |-> 200, json |-> TRUE, successful |-> TRUE, token |-> TRUE, error |-> FALSE,
     description |-> "", errCode |-> "", exc |-> ""]
SignInNetErr ==
    [status |-> 0, json |-> FALSE, successful |-> FALSE, token |-> FALSE, error |-> FALSE,
     description |-> "", errCode |-> "", exc |-> "ClientError"]
SignInTimeout == [SignInNetErr EXCEPT !.exc = "TimeoutError"]
NoSignIn ==
    [status |-> NoStatus, json |-> FALSE, successful |-> FALSE, token |-> FALSE,
     error |-> FALSE, description |-> "", errCode |-> "", exc |-> ""]
SignInResponses ==
    {SignInGranted,
     \* an error object: with a description and a code under 200, with a code
     \* only under 401, with neither
     [SignInGranted EXCEPT !.successful = FALSE, !.token = FALSE, !.error = TRUE,
                           !.description = "Wrong credentials", !.errCode = "10"],
     [SignInGranted EXCEPT !.status = 401, !.successful = FALSE, !.token = FALSE,
                           !.error = TRUE, !.errCode = "Invalid inverter serial"],
     [SignInGranted EXCEPT !.successful = FALSE, !.token = FALSE, !.error = TRUE],
     \* an unexpected schema: successful, but no token under "result"
     [SignInGranted EXCEPT !.token = FALSE],
     \* a token under a status other than 200
     [SignInGranted EXCEPT !.status = 500],
     \* a body that is not JSON
     [SignInNetErr EXCEPT !.status = 500, !.exc = ""],
     SignInNetErr,
     SignInTimeout}

SignInSucceedsAnyStatus(r) == r.json /\ r.successful /\ r.token
\* The test of lines 72 and 81-85.
SignInSucceeds(r) == r.json /\ r.status = 200 /\ r.successful /\ r.token

\* What connect raises on a sign-in that did not succeed: ConnectionError for
\* aiohttp.ClientError (line 105), any other exception as it came (lines
\* 108-110), ValueError ("auth_error") for every response.
ConnectRaises(r) ==
    IF r.exc = "ClientError" THEN "connection_error"
    ELSE IF r.exc = "TimeoutError" THEN "timeout_error"
    ELSE "auth_error"

GenericAuthMessage == "Authentication failed"
NonJsonMessage == "Authentication failed: non-JSON response"
UnexpectedMessage == "Authentication failed with unexpected response."
CannotConnectMessage == "Cannot connect to device"
\* str() of the exception connect raises.
ConnectMessage(r) ==
    IF r.exc = "ClientError" THEN CannotConnectMessage
    ELSE IF r.exc # "" THEN ""
    ELSE IF ~r.json THEN NonJsonMessage
    ELSE IF r.error
      THEN IF r.description # "" THEN r.description
           ELSE IF r.errCode # "" THEN r.errCode
           ELSE GenericAuthMessage
    ELSE UnexpectedMessage

IdleReq ==
    [pc |-> "idle", first401 |-> FALSE, reauths |-> 0, reauth_ok |-> FALSE,
     sends |-> 0, first_resp |-> NoResp, retry_resp |-> NoResp, signin |-> NoSignIn,
     result |-> NoResult, sent |-> <<>>]

TokenValidIgnoresExpiry ==
    /\ access_token # NoToken
    /\ token_expiration # NoExpiry
\* ensure_token_valid's test.
TokenValid ==
    /\ access_token # NoToken
    /\ token_expiration # NoExpiry
    /\ now < token_expiration

ConnectStoresMemoryOnly ==
    /\ issued < MaxTokens
    /\ issued' = issued + 1
    /\ access_token' = issued + 1
    /\ token_expiration' = now + TokenLifetime
    /\ store' = store
\* connect(), success branch: token, expiry, then store_token.
ConnectStores ==
    /\ issued < MaxTokens
    /\ issued' = issued + 1
    /\ access_token' = issued + 1
    /\ token_expiration' = now + TokenLifetime
    /\ store' = [access_token |-> issued + 1,
                 token_expiration |-> now + TokenLifetime]

\* make_request up to its first suspension: ensure_token_valid, then either
\* the sign-in POST or the request itself is in flight.
StartRequest(c) ==
    /\ rq[c].pc = "idle"
    /\ IF TokenValid
         THEN rq' = [rq EXCEPT ![c] = [IdleReq EXCEPT !.pc = "wait1", !.sends = 1,
                                                      !.sent = <<access_token>>]]
         ELSE rq' = [rq EXCEPT ![c] = [IdleReq EXCEPT !.pc = "auth0"]]
    /\ UNCHANGED <<access_token, token_expiration, store, now, issued>>

\* The sign-in started by ensure_token_valid succeeds.
EnsureConnectOk(c, r) ==
    /\ rq[c].pc = "auth0"
    /\ SignInSucceeds(r)
    /\ ConnectStores
    /\ rq' = [rq EXCEPT ![c].pc = "store0", ![c].signin = r]
    /\ UNCHANGED now

EnsureConnectFailSendsAnyway(c, r) ==
    /\ rq[c].pc = "auth0"
    /\ ~SignInSucceeds(r)
    /\ rq' = [rq EXCEPT ![c].pc = "wait1", ![c].signin = r, ![c].sends = 1,
                        ![c].sent = <<access_token>>]
    /\ UNCHANGED <<access_token, token_expiration, store, now, issued>>
\* The sign-in started by ensure_token_valid fails: line 155 is outside the
\* try block, so connect's exception leaves make_request.
EnsureConnectFail(c, r) ==
    /\ rq[c].pc = "auth0"
    /\ ~SignInSucceeds(r)
    /\ rq' = [rq EXCEPT ![c].pc = "done", ![c].signin = r,
                        ![c].result = Raised(ConnectRaises(r))]
    /\ UNCHANGED <<access_token, token_expiration, store, now, issued>>

\* store_token returned: the request is sent with the token now stored.
SendFirst(c) ==
    /\ rq[c].pc = "store0"
    /\ rq' = [rq EXCEPT ![c].pc = "wait1", ![c].sends = 1,
                        ![c].sent = <<access_token>>]
    /\ UNCHANGED <<access_token, token_expiration, store, now, issued>>

\* What make_request returns for the first response when it is not a 401.
FirstResult(r) ==
    IF r = NetErr THEN Failure(NoStatus)
    ELSE IF r.json THEN JsonBody(r.status)
    ELSE Failure(r.status)

\* What make_request returns for the response to the retry.
RetryResult(r) ==
    IF r = NetErr THEN Failure(NoStatus)
    ELSE IF r.json THEN JsonBody(r.status)
    ELSE Failure(NoStatus)

RetryNextLoops(r) == IF r.status = 401 THEN "auth1" ELSE "done"
\* Where make_request goes after the retry's response: it returns.
RetryNext(r) == "done"

\* The first response arrives.
FirstResponse(c, r) ==
    /\ rq[c].pc = "wait1"
    /\ IF r.status = 401
         THEN rq' = [rq EXCEPT ![c].pc = "auth1", ![c].first401 = TRUE,
                               ![c].first_resp = r, ![c].reauths = @ + 1]
         ELSE rq' = [rq EXCEPT ![c].pc = "done", ![c].first_resp = r,
                               ![c].result = FirstResult(r)]
    /\ UNCHANGED <<access_token, token_expiration, store, now, issued>>

\* refresh_token after the 401 succeeds.
ReauthOk(c, r) ==
    /\ rq[c].pc = "auth1"
    /\ SignInSucceeds(r)
    /\ ConnectStores
    /\ rq' = [rq EXCEPT ![c].pc = "store1", ![c].reauth_ok = TRUE, ![c].signin = r]
    /\ UNCHANGED now

\* refresh_token after the 401 raises: caught at line 208, no retry.
ReauthFail(c, r) ==
    /\ rq[c].pc = "auth1"
    /\ ~SignInSucceeds(r)
    /\ rq' = [rq EXCEPT ![c].pc = "done", ![c].signin = r,
                        ![c].result = Failure(NoStatus)]
    /\ UNCHANGED <<access_token, token_expiration, store, now, issued>>

SendRetryKeepsHeaders(c) ==
    /\ rq[c].pc = "store1"
    /\ rq' = [rq EXCEPT ![c].pc = "wait2", ![c].sends = @ + 1,
                        ![c].sent = Append(@, rq[c].sent[1])]
    /\ UNCHANGED <<access_token, token_expiration, store, now, issued>>
\* store_token returned: the retry is sent with the token now stored.
SendRetry(c) ==
    /\ rq[c].pc = "store1"
    /\ rq' = [rq EXCEPT ![c].pc = "wait2", ![c].sends = @ + 1,
                        ![c].sent = Append(@, access_token)]
    /\ UNCHANGED <<access_token, token_expiration, store, now, issued>>

\* The retry's response arrives.
RetryResponse(c, r) ==
    /\ rq[c].pc = "wait2"
    /\ LET nxt == RetryNext(r) IN
         rq' = [rq EXCEPT ![c].pc = nxt,
                          ![c].retry_resp = r,
                          ![c].reauths = IF nxt = "auth1" THEN @ + 1 ELSE @,
                          ![c].result = IF nxt = "done" THEN RetryResult(r) ELSE @]
    /\ UNCHANGED <<access_token, token_expiration, store, now, issued>>

\* The caller takes the result; the call is over.
ReturnRequest(c) ==
    /\ rq[c].pc = "done"
    /\ rq' = [rq EXCEPT ![c] = IdleReq]
    /\ UNCHANGED <<access_token, token_expiration, store, now, issued>>

\* Time passes.
Tick(d) ==
    /\ now + d <= MaxNow
    /\ now' = now + d
    /\ UNCHANGED <<access_token, token_expiration, store, issued, rq>>

(***************************************************************************)
(* Startup: __init__.py, async_setup_entry                                 *)
(***************************************************************************)
\* The token record an earlier run can have left in the Store: none, a token
\* that is still good for a while, or one whose expiry has been reached.
PersistedRecords ==
    {NoRecord,
     [access_token |-> 9, token_expiration |-> 25],
     [access_token |-> 9, token_expiration |-> 0]}

\* A persisted record that load_token and ensure_token_valid would accept.
RecordUsable(rec, t) ==
    /\ rec.access_token # NoToken
    /\ rec.token_expiration # NoExpiry
    /\ t < rec.token_expiration

NewSetup ==
    [pc |-> "new", reusable |-> FALSE, signins |-> 0, resp |-> NoSignIn,
     outcome |-> "none", message |-> "", granted |-> NoToken, at |-> NoExpiry,
     before |-> [access_token |-> NoToken, token_expiration |-> NoExpiry,
                 store |-> NoRecord]]

\* Lines 63-74: the client is constructed (no token, no expiry) and
\* api.connect() posts the sign-in; load_token is not called.
SetupConnects ==
    /\ setup.pc = "new"
    /\ setup.signins < MaxSetups
    /\ setup' = [setup EXCEPT !.pc = "signin",
                              !.reusable = RecordUsable(store, now),
                              !.signins = @ + 1,
                              !.before = [access_token |-> access_token,
                                          token_expiration |-> token_expiration,
                                          store |-> store]]
    /\ UNCHANGED <<access_token, token_expiration, store, now, issued, rq>>

\* connect() gets its answer: token, expiry and store_token on success, an
\* exception otherwise (lines 72-110).
SetupSignInResponse(r) ==
    /\ setup.pc = "signin"
    /\ IF SignInSucceeds(r)
         THEN /\ ConnectStores
              /\ setup' = [setup EXCEPT !.pc = "storing", !.resp = r,
                                        !.granted = issued + 1, !.at = now]
         ELSE /\ setup' = [setup EXCEPT !.pc = "failed", !.resp = r,
                                        !.outcome = ConnectRaises(r),
                                        !.message = ConnectMessage(r)]
              /\ UNCHANGED <<access_token, token_expiration, store, issued>>
    /\ UNCHANGED <<now, rq>>

\* store_token returned, and with it connect().
SetupConnected ==
    /\ setup.pc = "storing"
    /\ setup' = [setup EXCEPT !.pc = "connected"]
    /\ UNCHANGED <<access_token, token_expiration, store, now, issued, rq>>

\* Lines 76-77: the coordinator is created and its first refresh starts;
\* from here on poll fetches and commands call make_request.
SetupFirstRefresh ==
    /\ setup.pc = "connected"
    /\ setup' = [NewSetup EXCEPT !.pc = "ready"]
    /\ UNCHANGED <<access_token, token_expiration, store, now, issued, rq>>

\* Lines 99-101: ConfigEntryNotReady; the setup is tried again later with a
\* new client object.
SetupRetry ==
    /\ setup.pc = "failed"
    /\ setup' = [NewSetup EXCEPT !.signins = setup.signins]
    /\ UNCHANGED <<access_token, token_expiration, store, now, issued, rq>>

(***************************************************************************)
(* Config flow and options flow: config_flow.py                            *)
(***************************************************************************)
\* step_id "user" is the setup flow, "init" the options flow.
FlowSteps == {"user", "init"}
UserTypes == {"customer", "tech"}
SerialInputs == {"", "SN1"}

\* The parameters EatonBatteryAPI.__init__ declares, and the keywords both
\* _test_connection methods construct it with.
ApiInitParams ==
    {"hass", "host", "username", "password", "inverter_sn", "email", "app_id", "name",
     "manufacturer"}
TestConnectionKeywords == ApiInitParams \cup {"user_type"}
\* A keyword the constructor does not declare: TypeError.
ConstructorRaises == ~(TestConnectionKeywords \subseteq ApiInitParams)

NoErrors == [field |-> "", key |-> ""]
NoFlow ==
    [step |-> "none", user_type |-> "", inverter_sn |-> "", device |-> NoSignIn,
     errors |-> NoErrors, signins |-> 0, sent_user_type |-> "", result |-> "none",
     submits |-> 0]

ValidationSkipped(user_type, inverter_sn) == FALSE
\* user_type == "tech" and not inverter_sn
ValidationFails(user_type, inverter_sn) == user_type = "tech" /\ inverter_sn = ""

\* connect(), line 66: the "userType" of the sign-in body.
SignInUserType == "tech"

\* _test_connection against a device that would answer the sign-in with r:
\* the exception that leaves it ("" when it returns), its message, and the
\* sign-in requests it sent.  The client is constructed before the try
\* block; connect's ValueError is raised again as "Invalid credentials".
TestConnection(step, r) ==
    IF ConstructorRaises
      THEN [raises |-> "TypeError", message |-> "", signins |-> 0]
    ELSE IF SignInSucceeds(r)
      THEN [raises |-> "", message |-> "", signins |-> 1]
    ELSE IF ConnectRaises(r) = "auth_error"
      THEN [raises |-> "ValueError", message |-> "Invalid credentials", signins |-> 1]
    ELSE IF step = "user" \/ ConnectRaises(r) = "connection_error"
      THEN [raises |-> "ConnectionError", message |-> CannotConnectMessage,
            signins |-> 1]
    ELSE [raises |-> "Exception", message |-> "Unexpected error: ", signins |-> 1]

\* The chain of substring tests on str(err) of a ValueError.
AuthErrorKey(message) ==
    CASE message = "Error during authentication: 10" -> "Error during authentication: 10"
      [] message = "Wrong credentials" -> "err_wrong_credentials"
      [] message = "Invalid inverter serial" -> "err_invalid_inverter_sn"
      [] message = NonJsonMessage -> NonJsonMessage
      [] message = UnexpectedMessage -> UnexpectedMessage
      [] OTHER -> "invalid_auth"

\* The except clauses around _test_connection: errors["base"].
BaseErrorKey(x) ==
    CASE x.raises = "ConnectionError" -> "cannot_connect"
      [] x.raises = "ValueError" -> AuthErrorKey(x.message)
      [] OTHER -> "unknown"

\* async_step_user / async_step_init with user_input: the validation, then
\* _test_connection, then the entry or the form with its errors.
FlowSubmit(step, user_type, inverter_sn, r) ==
    /\ flow.submits < MaxSubmits
    /\ LET x == TestConnection(step, r)
           seen == [NoFlow EXCEPT !.step = step, !.user_type = user_type,
                                  !.inverter_sn = inverter_sn, !.device = r,
                                  !.submits = flow.submits + 1]
       IN  flow' =
             IF ValidationFails(user_type, inverter_sn)
               THEN [seen EXCEPT !.result = "form",
                                 !.errors = [field |-> "inverter_sn",
                                             key |-> "required_inverter_sn"]]
             ELSE IF x.raises = ""
               THEN [seen EXCEPT !.result = "entry", !.signins = x.signins,
                                 !.sent_user_type = SignInUserType]
             ELSE [seen EXCEPT !.result = "form", !.signins = x.signins,
                               !.sent_user_type =
                                   IF x.signins > 0 THEN SignInUserType ELSE "",
                               !.errors = [field |-> "base", key |-> BaseErrorKey(x)]]

(***************************************************************************)
(* Notification event entity: event.py                                     *)
(***************************************************************************)
MaxUpdates == 3

\* The alert ids the device hands out.
AlertIds == {"a1", "a2"}

\* An element of "results": something that is no mapping, or a mapping with
\* its "alertId" and "alert_id" keys ("" for a key that is missing or falsy).
NotDict == [dict |-> FALSE, alertId |-> "", alert_id |-> ""]
Item(camel, snake) == [dict |-> TRUE, alertId |-> camel, alert_id |-> snake]
Items ==
    {NotDict, Item("", ""), Item("a1", ""), Item("a2", ""), Item("", "a1"),
     Item("a2", "a1")}
ResultLists ==
    {<<>>} \cup {<<a>> : a \in Items} \cup {<<a, b>> : a \in Items, b \in Items}

\* The "notifications" section of coordinator.data: None (the response was
\* {"result": null}), a mapping without "results", a mapping whose "results"
\* is null, or a mapping with a list; "unset" while coordinator.data is empty.
NotifSection(kind, list) == [kind |-> kind, results |-> list]
NotifUnset == NotifSection("unset", <<>>)
NotifSections ==
    {NotifSection("null", <<>>), NotifSection("no_results", <<>>),
     NotifSection("null_results", <<>>)}
        \cup {NotifSection("list", l) : l \in ResultLists}

\* alert.get("alertId") or alert.get("alert_id").
AlertIdOf(item) == IF item.alertId # "" THEN item.alertId ELSE item.alert_id

IsAlert(item) == item.dict /\ AlertIdOf(item) # ""

\* _extract_alerts: the mappings of "results" that carry an alert id; a
\* section that is None raises AttributeError at data.get, a null "results"
\* raises TypeError at the loop.
ExtractAlerts(sec) ==
    CASE sec.kind = "null" -> [raises |-> "AttributeError", alerts |-> <<>>]
      [] sec.kind = "null_results" -> [raises |-> "TypeError", alerts |-> <<>>]
      [] OTHER -> [raises |-> "", alerts |-> SelectSeq(sec.results, IsAlert)]

\* The alert ids a section shows.
AlertIdsOf(sec) ==
    LET alerts == ExtractAlerts(sec).alerts
    IN  {AlertIdOf(alerts[i]) : i \in 1..Len(alerts)}

\* The entity before async_added_to_hass; fired lists the alert ids of the
\* events triggered so far, shown the alert ids the snapshot has held so far
\* and at_add those it held when the entity was added.
NoEvent ==
    [notifications |-> NotifUnset, listening |-> FALSE, seen |-> {},
     primed |-> FALSE, fired |-> <<>>, updates |-> 0, shown |-> {}, at_add |-> {}]

HandleAlertIgnoresSeen(ev, alert) ==
    [ev EXCEPT !.seen = @ \cup {AlertIdOf(alert)},
               !.fired = IF ev.primed THEN Append(@, AlertIdOf(alert)) ELSE @]
\* One round of the loop of _handle_coordinator_update.
HandleAlert(ev, alert) ==
    IF AlertIdOf(alert) = "" \/ AlertIdOf(alert) \in ev.seen
      THEN ev
      ELSE [ev EXCEPT !.seen = @ \cup {AlertIdOf(alert)},
                      !.fired = IF ev.primed THEN Append(@, AlertIdOf(alert)) ELSE @]

RECURSIVE HandleAlerts(_, _)
HandleAlerts(ev, alerts) ==
    IF alerts = <<>> THEN ev
    ELSE HandleAlerts(HandleAlert(ev, Head(alerts)), Tail(alerts))

\* _handle_coordinator_update: the exceptions of _extract_alerts are caught
\* and logged.
EventHandleCoordinatorUpdate(ev) ==
    LET x == ExtractAlerts(ev.notifications)
    IN  IF x.raises # "" THEN ev ELSE HandleAlerts(ev, x.alerts)

\* A coordinator update publishes a snapshot with this "notifications"
\* section; the entity's listener runs once it has been registered.
EventUpdate(sec) ==
    /\ event.updates < MaxUpdates
    /\ LET ev == [event EXCEPT !.notifications = sec, !.updates = @ + 1,
                               !.shown = @ \cup AlertIdsOf(sec)]
       IN  event' = IF event.listening THEN EventHandleCoordinatorUpdate(ev) ELSE ev

\* async_added_to_hass: the listener is registered, the alerts of the
\* snapshot are put into _seen and _primed is set; an exception of
\* _extract_alerts leaves the method before that.
EventAdded ==
    /\ ~event.listening
    /\ event.updates > 0
    /\ LET x == ExtractAlerts(event.notifications)
           ev == [event EXCEPT !.listening = TRUE]
       IN  event' =
             IF x.raises # "" THEN ev
             ELSE [ev EXCEPT !.seen = @ \cup AlertIdsOf(event.notifications),
                             !.primed = TRUE,
                             !.at_add = AlertIdsOf(event.notifications)]

(***************************************************************************)
(* JSON documents.  A key that is missing holds Absent; every document is  *)
(* a record over all the keys the code looks at.                           *)
(***************************************************************************)
Absent == -1

\* country, city and timezone: an object with a geonameId and/or an id key,
\* or a bare identifier (value; 0 is the empty string), or missing.
Obj(g, i) == [t |-> "obj", geonameId |-> g, id |-> i, value |-> Absent]
Prim(v) == [t |-> "prim", geonameId |-> Absent, id |-> Absent, value |-> v]
Missing == [t |-> "absent", geonameId |-> Absent, id |-> Absent, value |-> Absent]

\* energySavingMode: a mapping with enabled (0/1) and houseConsumptionThreshold,
\* or null, or missing.
Esm(e, thr) == [t |-> "map", enabled |-> e, houseConsumptionThreshold |-> thr]
EsmNull == [t |-> "null", enabled |-> Absent, houseConsumptionThreshold |-> Absent]
EsmMissing == [t |-> "absent", enabled |-> Absent, houseConsumptionThreshold |-> Absent]

\* defaultMode: {"command": ..., "parameters": {...}}.
NoParams ==
    [maxHousePeakConsumption |-> Absent, maximumPower |-> Absent,
     powerAllocation |-> Absent, optimalSoc |-> Absent]
Mode(cmd, params) == [command |-> cmd, parameters |-> params]
ModeMissing == Mode("", NoParams)

DocFull ==
    [country |-> Obj(7, Absent), city |-> Obj(8, Absent), timezone |-> Obj(Absent, 9),
     energySavingMode |-> Esm(0, 300), bmsBackupLevel |-> 20,
     defaultMode |-> Mode("SET_BASIC_MODE", NoParams)]
DocPrim ==
    [country |-> Prim(7), city |-> Prim(8), timezone |-> Prim(9),
     energySavingMode |-> Esm(1, 450), bmsBackupLevel |-> 50,
     defaultMode |-> Mode("SET_PEAK_SHAVING",
                          [NoParams EXCEPT !.maxHousePeakConsumption = 450])]
DocSparse ==
    [country |-> Missing, city |-> Obj(Absent, Absent), timezone |-> Obj(5, 9),
     energySavingMode |-> EsmMissing, bmsBackupLevel |-> Absent,
     defaultMode |-> ModeMissing]
DocNullEsm ==
    [country |-> Obj(7, 1), city |-> Prim(0), timezone |-> Missing,
     energySavingMode |-> EsmNull, bmsBackupLevel |-> 20,
     defaultMode |-> Mode("SET_BASIC_MODE", NoParams)]
InitDocs == {DocFull, DocPrim, DocSparse, DocNullEsm}

(***************************************************************************)
(* Snapshot coordinator: coordinator.py                                    *)
(***************************************************************************)
SectionOrder ==
    <<"status", "device", "config_state", "settings", "metrics", "metrics_daily",
      "schedule", "technical_status", "maintenance_diagnostics", "notifications",
      "unread_notifications_count">>
NumSections == Len(SectionOrder)
Sections == {SectionOrder[i] : i \in 1..NumSections}
CoreSections == {"status", "device"}
\* The sections fetched by the loop of lines 116-132.
OptionalSections == {"config_state", "settings", "metrics", "metrics_daily", "schedule"}

\* What one fetch can yield:
\*   payload      {"result": {...}}
\*   raw          {...} without a "result" key
\*   failure      make_request's {"successful": False, "error": ...}
\*   null_result  {"result": null}
\*   falsy        an empty or null body
\*   raise        an exception (ensure_token_valid's sign-in failed)
Outcomes == {"payload", "raw", "failure", "null_result", "falsy", "raise"}

\* What a section of the snapshot holds.
NoDoc == [none |-> TRUE]
Unset == [kind |-> "unset", doc |-> NoDoc]           \* not there (yet)
EmptyMap == [kind |-> "empty", doc |-> NoDoc]        \* {}
NullValue == [kind |-> "null", doc |-> NoDoc]        \* None
FailureObj == [kind |-> "failure", doc |-> NoDoc]    \* the failure object
PayloadOf(d) == [kind |-> "payload", doc |-> d]

NoData == [s \in Sections |-> Unset]

\* The payload the device serves for a section.
DeviceDoc(s) ==
    CASE s = "settings" -> device_settings
      [] s = "device" ->
           [powerState |-> device_power,
            houseConsumptionThreshold |->
                device_settings.energySavingMode.houseConsumptionThreshold]
      [] s = "status" ->
           \* energyFlow.batteryBackupLevel: the level in force, also on a
           \* device whose settings document does not list one
           [batteryBackupLevel |->
                IF device_settings.bmsBackupLevel # Absent
                  THEN device_settings.bmsBackupLevel ELSE 35]
      [] OTHER -> [section |-> s]

\* x.get("result", {}) if x else {}
UnwrapResult(s, o) ==
    CASE o = "payload" -> PayloadOf(DeviceDoc(s))
      [] o = "null_result" -> NullValue
      [] OTHER -> EmptyMap

\* data.get("result", {}) if data and isinstance(data, dict) and "result" in data
\* else data or {}
UnwrapOrRaw(s, o) ==
    CASE o = "payload" -> PayloadOf(DeviceDoc(s))
      [] o = "raw" -> PayloadOf(DeviceDoc(s))
      [] o = "failure" -> FailureObj
      [] o = "null_result" -> NullValue
      [] OTHER -> EmptyMap

\* What _async_update_data stores for section s when its fetch yields o.
StoreSection(s, o) ==
    IF o = "raise" THEN EmptyMap
    ELSE IF s \in OptionalSections THEN UnwrapOrRaw(s, o)
    ELSE UnwrapResult(s, o)

NotFetched == [s \in Sections |-> "pending"]

\* The coordinator's timer or a requested refresh starts a cycle.
StartCycle ==
    /\ pos = 0
    /\ pos' = 1
    /\ results' = NoData
    /\ fetched' = NotFetched
    /\ UNCHANGED <<faults, data, last_update_success>>

FetchPatchesSnapshot(o) ==
    /\ pos \in 1..NumSections
    /\ o = "payload" \/ faults < MaxFaults
    /\ LET s == SectionOrder[pos] IN
         /\ results' = [results EXCEPT ![s] = StoreSection(s, o)]
         /\ fetched' = [fetched EXCEPT ![s] = o]
         /\ data' = [data EXCEPT ![s] = StoreSection(s, o)]
    /\ faults' = IF o = "payload" THEN faults ELSE faults + 1
    /\ pos' = pos + 1
    /\ UNCHANGED last_update_success
\* One fetch of the running cycle returns (or raises) and is stored.
Fetch(o) ==
    /\ pos \in 1..NumSections
    /\ o = "payload" \/ faults < MaxFaults
    /\ LET s == SectionOrder[pos] IN
         /\ results' = [results EXCEPT ![s] = StoreSection(s, o)]
         /\ fetched' = [fetched EXCEPT ![s] = o]
    /\ faults' = IF o = "payload" THEN faults ELSE faults + 1
    /\ pos' = pos + 1
    /\ UNCHANGED <<data, last_update_success>>

\* _async_update_data returns results: nothing inside the outer try can
\* raise, so the cycle always ends by publishing (DataUpdateCoordinator
\* assigns data and sets last_update_success).
FinishCycle ==
    /\ pos = NumSections + 1
    /\ data' = results
    /\ last_update_success' = TRUE
    /\ pos' = 0
    /\ results' = NoData
    /\ fetched' = NotFetched
    /\ UNCHANGED faults

(***************************************************************************)
(* Settings-patch protocol and optimistic state: number.py, switch.py,     *)
(* select.py                                                               *)
(***************************************************************************)
Tasks == {"t1"}

\* The operations a user can start.
NumberOps == {"threshold", "backup"}
SwitchPatchOps == {"esm_on", "esm_off"}
PowerOps == {"power_on", "power_off"}
PatchOps == NumberOps \cup SwitchPatchOps \cup {"default_mode"}
\* The current-mode select sends a device command, with no settings patch.
CommandOps == {"current_mode"}
SelectOps == {"default_mode", "current_mode"}
\* The two buttons: stop current operation, mark all notifications read.
ButtonOps == {"stop_operation", "mark_read"}
Ops == PatchOps \cup PowerOps \cup CommandOps \cup ButtonOps

\* The entity an operation belongs to; the select keeps no optimistic value.
OptimisticEntities == {"threshold", "backup", "esm", "power"}
EntityOf(op) ==
    CASE op = "threshold" -> "threshold"
      [] op = "backup" -> "backup"
      [] op \in SwitchPatchOps -> "esm"
      [] op \in PowerOps -> "power"
      [] OTHER -> "select"

NoValue == -1
NoOptimistic == [e \in OptimisticEntities |-> NoValue]

\* Requested values reach the number entities as floats: they are kept here
\* in tenths, and int(value) truncates.
IntOf(tenths) == tenths \div 10
ThresholdInputs == {3000, 4505}
BackupInputs == {200, 507}

\* DEFAULT_MODE_OPTIONS: label -> command.
ModeLabels ==
    {"Basic Mode", "Maximize Auto Consumption", "Variable Grid Injection",
     "Frequency Regulation", "Peak Shaving"}
OptionToCmd(label) ==
    CASE label = "Basic Mode" -> "SET_BASIC_MODE"
      [] label = "Maximize Auto Consumption" -> "SET_MAXIMIZE_AUTO_CONSUMPTION"
      [] label = "Variable Grid Injection" -> "SET_VARIABLE_GRID_INJECTION"
      [] label = "Frequency Regulation" -> "SET_FREQUENCY_REGULATION"
      [] label = "Peak Shaving" -> "SET_PEAK_SHAVING"
OptionInputs == ModeLabels \cup {"Manual Charge"}

\* The current-mode select: the same labels and the two manual ones.
CurrentModeLabels == ModeLabels \cup {"Manual Charge", "Manual Discharge"}
CurrentOptionToCmd(label) ==
    CASE label = "Manual Charge" -> "SET_CHARGE"
      [] label = "Manual Discharge" -> "SET_DISCHARGE"
      [] OTHER -> OptionToCmd(label)
CurrentOptionInputs == CurrentModeLabels \cup {"Eco Mode"}
\* self._option_to_cmd of the select an operation belongs to.
KnownOptions(op) == IF op = "current_mode" THEN CurrentModeLabels ELSE ModeLabels

\* An operation's argument: a number in tenths, or an option label.
ArgsOf(op) ==
    CASE op = "threshold" -> [value : ThresholdInputs, option : {""}]
      [] op = "backup" -> [value : BackupInputs, option : {""}]
      [] op = "default_mode" -> [value : {NoValue}, option : OptionInputs]
      [] op = "current_mode" -> [value : {NoValue}, option : CurrentOptionInputs]
      [] op \in ButtonOps -> [value : {NoValue}, option : {""}]
      [] op \in {"esm_on", "power_on"} -> [value : {1}, option : {""}]
      [] op \in {"esm_off", "power_off"} -> [value : {0}, option : {""}]

\* The value the operation records and submits.
RequestedValue(op, arg) ==
    IF op \in NumberOps THEN IntOf(arg.value) ELSE arg.value

\* What get_settings can yield to an entity:
\*   ok             {"result": <the device's document>}
\*   failure        make_request's failure object (no "result")
\*   empty_result   {"result": {}} or {"result": null}
\*   null_response  a null body
\*   raise          an exception
GetOutcomes == {"ok", "failure", "empty_result", "null_response", "raise"}
\* What update_settings can yield:
\*   accepted       {"successful": true}; the device applies the document
\*   result_only    {"result": {...}} without a "successful" flag; applied
\*   rejected       {"successful": false, ...}
\*   bare           neither "successful" nor "result"
\*   null_response  a null body (result.get raises AttributeError)
\*   raise          an exception
PutOutcomes == {"accepted", "result_only", "rejected", "bare", "null_response", "raise"}
\* What set_device_power can yield: it returned (whatever the body) and the
\* device switched or did not, or it raised.
PowerOutcomes == {"switched", "ignored", "raise"}

IdleTask ==
    [pc |-> "idle", op |-> "none", arg |-> [value |-> NoValue, option |-> ""],
     fetched |-> NoDoc, body |-> NoDoc, log |-> <<>>, error |-> FALSE,
     get |-> "none", put |-> "none", served |-> NoDoc, command |-> NoDoc]

\* .get("geonameId", "") / .get("id", "") on an object; anything else is left.
FlattenBy(v, key) ==
    IF v.t # "obj" THEN v
    ELSE IF key = "geonameId"
           THEN Prim(IF v.geonameId = Absent THEN 0 ELSE v.geonameId)
           ELSE Prim(IF v.id = Absent THEN 0 ELSE v.id)

NormalizeSkipsTimezone(doc) ==
    [doc EXCEPT !.country = FlattenBy(@, "geonameId"),
                !.city = FlattenBy(@, "geonameId")]
\* The three isinstance(..., dict) blocks every settings patch starts with.
Normalize(doc) ==
    [doc EXCEPT !.country = FlattenBy(@, "geonameId"),
                !.city = FlattenBy(@, "geonameId"),
                !.timezone = FlattenBy(@, "id")]

\* The section of the snapshot as the mapping the entities walk: a section
\* without payload has none of the keys.
HasPayload(s) == data[s].kind = "payload"

DefaultOptimalSoc == 28
\* select.py: the parameters of the defaultMode written for a command.
DefaultModeParams(cmd, cs) ==
    CASE cmd = "SET_PEAK_SHAVING" ->
           IF /\ cs.energySavingMode.t = "map"
              /\ cs.energySavingMode.houseConsumptionThreshold # Absent
             THEN [NoParams EXCEPT !.maxHousePeakConsumption =
                       cs.energySavingMode.houseConsumptionThreshold]
             ELSE NoParams
      [] cmd = "SET_VARIABLE_GRID_INJECTION" -> [NoParams EXCEPT !.maximumPower = 0]
      [] cmd = "SET_FREQUENCY_REGULATION" ->
           LET fromStatus ==
                   IF HasPayload("status") /\ data["status"].doc.batteryBackupLevel # Absent
                     THEN data["status"].doc.batteryBackupLevel
                     ELSE DefaultOptimalSoc
               soc == IF cs.bmsBackupLevel # Absent THEN cs.bmsBackupLevel ELSE fromStatus
           IN  [NoParams EXCEPT !.powerAllocation = 0, !.optimalSoc = soc]
      [] OTHER -> NoParams

\* What send_device_command is given: command, duration, parameters.
Command(cmd, hours, params) == [command |-> cmd, duration |-> hours, parameters |-> params]

CurrentModeParamsDefaultPeak(cmd) ==
    CASE cmd = "SET_CHARGE" -> [action |-> "ACTION_CHARGE", power |-> 15, soc |-> 90]
      [] cmd = "SET_DISCHARGE" -> [action |-> "ACTION_DISCHARGE", power |-> 15, soc |-> 10]
      [] cmd = "SET_PEAK_SHAVING" -> [NoParams EXCEPT !.maxHousePeakConsumption = 1000]
      [] cmd = "SET_VARIABLE_GRID_INJECTION" -> [NoParams EXCEPT !.maximumPower = 0]
      [] cmd = "SET_FREQUENCY_REGULATION" ->
           [NoParams EXCEPT !.powerAllocation = 0,
                            !.optimalSoc =
                                IF /\ HasPayload("settings")
                                   /\ data["settings"].doc.bmsBackupLevel # Absent
                                  THEN data["settings"].doc.bmsBackupLevel
                                  ELSE DefaultOptimalSoc]
      [] OTHER -> NoParams
\* select.py, lines 301-352: the parameters of an immediate command, taken
\* from the snapshot's settings section; no helper value is stored, so the
\* manual modes get their defaults.
CurrentModeParams(cmd) ==
    CASE cmd = "SET_CHARGE" -> [action |-> "ACTION_CHARGE", power |-> 15, soc |-> 90]
      [] cmd = "SET_DISCHARGE" -> [action |-> "ACTION_DISCHARGE", power |-> 15, soc |-> 10]
      [] cmd = "SET_PEAK_SHAVING" ->
           [NoParams EXCEPT !.maxHousePeakConsumption =
               IF /\ HasPayload("settings")
                  /\ data["settings"].doc.energySavingMode.t = "map"
                  /\ data["settings"].doc.energySavingMode.houseConsumptionThreshold # Absent
                 THEN data["settings"].doc.energySavingMode.houseConsumptionThreshold
                 ELSE 1000]
      [] cmd = "SET_VARIABLE_GRID_INJECTION" -> [NoParams EXCEPT !.maximumPower = 0]
      [] cmd = "SET_FREQUENCY_REGULATION" ->
           [NoParams EXCEPT !.powerAllocation = 0,
                            !.optimalSoc =
                                IF /\ HasPayload("settings")
                                   /\ data["settings"].doc.bmsBackupLevel # Absent
                                  THEN data["settings"].doc.bmsBackupLevel
                                  ELSE DefaultOptimalSoc]
      [] OTHER -> NoParams

\* Lines 283-299: charge_duration / discharge_duration default to 1 hour,
\* run_duration to 2.
CurrentModeDuration(cmd) == IF cmd \in {"SET_CHARGE", "SET_DISCHARGE"} THEN 1 ELSE 2

\* current_settings["energySavingMode"][...] = ... raises TypeError when the
\* fetched document holds energySavingMode as null.
PatchRaises(op, doc) ==
    /\ op \in {"threshold", "esm_on", "esm_off"}
    /\ doc.energySavingMode.t = "null"

SetEsmFieldEnables(esm, field, v) ==
    LET base == IF esm.t = "absent" THEN Esm(Absent, Absent) ELSE esm
    IN  IF field = "enabled" THEN [base EXCEPT !.enabled = v]
        ELSE [base EXCEPT !.houseConsumptionThreshold = v, !.enabled = 1]
\* current_settings["energySavingMode"][field] = v, the mapping created when
\* the key is missing.
SetEsmField(esm, field, v) ==
    LET base == IF esm.t = "absent" THEN Esm(Absent, Absent) ELSE esm
    IN  IF field = "enabled" THEN [base EXCEPT !.enabled = v]
        ELSE [base EXCEPT !.houseConsumptionThreshold = v]

ApplyChangeDropsSiblings(op, arg, cs) ==
    CASE op = "threshold" ->
           [cs EXCEPT !.energySavingMode = Esm(Absent, RequestedValue(op, arg))]
      [] op = "backup" -> [cs EXCEPT !.bmsBackupLevel = RequestedValue(op, arg)]
      [] op \in SwitchPatchOps ->
           [cs EXCEPT !.energySavingMode = Esm(arg.value, Absent)]
      [] op = "default_mode" ->
           [cs EXCEPT !.defaultMode =
               Mode(OptionToCmd(arg.option), DefaultModeParams(OptionToCmd(arg.option), cs))]
\* The one field change each operation applies to the normalized document.
ApplyChange(op, arg, cs) ==
    CASE op = "threshold" ->
           [cs EXCEPT !.energySavingMode =
               SetEsmField(@, "houseConsumptionThreshold", RequestedValue(op, arg))]
      [] op = "backup" -> [cs EXCEPT !.bmsBackupLevel = RequestedValue(op, arg)]
      [] op \in SwitchPatchOps ->
           [cs EXCEPT !.energySavingMode = SetEsmField(@, "enabled", arg.value)]
      [] op = "default_mode" ->
           [cs EXCEPT !.defaultMode =
               Mode(OptionToCmd(arg.option), DefaultModeParams(OptionToCmd(arg.option), cs))]

\* The document under "settings" in the PUT body.
BuildBody(op, arg, doc) == ApplyChange(op, arg, Normalize(doc))

GetResultFromSnapshot ==
    IF HasPayload("settings") THEN data["settings"].doc ELSE device_settings
\* The document in the "result" of a successful get_settings: what the device
\* holds at that moment.
GetResult == device_settings

\* What the device holds after a PUT it accepted: the submitted fields, with
\* country, city and timezone kept in the device's own form.
DeviceApplies(body) ==
    [body EXCEPT !.country = device_settings.country,
                 !.city = device_settings.city,
                 !.timezone = device_settings.timezone]

ClearOptimisticKeeps(op) == optimistic
\* self._optimistic_value = None / self._optimistic_state = None.
ClearOptimistic(op) ==
    IF EntityOf(op) \in OptimisticEntities
      THEN [optimistic EXCEPT ![EntityOf(op)] = NoValue]
      ELSE optimistic

\* button.py, lines 95-97: send_device_command("SET_BASIC_MODE", 1, {}).
StopCommand == Command("SET_BASIC_MODE", 1, NoParams)

\* The user starts an operation: the entity records the requested value and
\* the operation suspends in its first request (get_settings, or the power
\* command).  An option the select does not know ends the call at once.
StartOp(t, op, arg) ==
    /\ task[t].pc = "idle"
    /\ ops_started < MaxOps
    /\ ops_started' = ops_started + 1
    /\ IF op \in SelectOps /\ arg.option \notin KnownOptions(op)
         THEN /\ task' = [task EXCEPT ![t] = [IdleTask EXCEPT !.pc = "done", !.op = op,
                                                            !.arg = arg]]
              /\ UNCHANGED optimistic
         ELSE /\ task' = [task EXCEPT ![t] =
                    [IdleTask EXCEPT !.pc = IF op \in PowerOps THEN "command"
                                            ELSE IF op \in CommandOps THEN "mode_command"
                                            ELSE IF op = "stop_operation" THEN "stop_command"
                                            ELSE IF op = "mark_read" THEN "mark_read"
                                            ELSE "get",
                                     !.op = op, !.arg = arg,
                                     !.command =
                                         IF op \in CommandOps
                                           THEN LET cmd == CurrentOptionToCmd(arg.option)
                                                IN  Command(cmd, CurrentModeDuration(cmd),
                                                            CurrentModeParams(cmd))
                                           ELSE IF op = "stop_operation" THEN StopCommand
                                           ELSE NoDoc,
                                     !.log = IF op \in PowerOps THEN <<"POWER">>
                                             ELSE IF op \in CommandOps \cup {"stop_operation"}
                                               THEN <<"COMMAND">>
                                             ELSE IF op = "mark_read" THEN <<"MARK_READ">>
                                             ELSE <<"GET">>]]
              /\ optimistic' =
                    IF EntityOf(op) \in OptimisticEntities
                      THEN [optimistic EXCEPT ![EntityOf(op)] = RequestedValue(op, arg)]
                      ELSE optimistic
    /\ UNCHANGED <<device_settings, device_power, data, last_update_success>>

\* The except block: a refresh is requested and HomeAssistantError is raised
\* (the optimistic value is cleared first); the select and the stop button
\* only log and refresh.
ExceptionTask(tk) ==
    [tk EXCEPT !.pc = "done", !.log = Append(@, "REFRESH"),
               !.error = (tk.op \notin SelectOps \cup ButtonOps)]

PrefetchFailedTaskPuts(tk) ==
    [tk EXCEPT !.pc = "put", !.log = Append(@, "PUT"),
               !.body = BuildBody(tk.op, tk.arg, DocSparse)]
\* "Failed to get current settings from API": the operation returns (the
\* optimistic value is cleared first).
PrefetchFailedTask(tk) == [tk EXCEPT !.pc = "done"]

GetReturnsEditsSnapshot(t, o) ==
    /\ task[t].pc = "get"
    /\ LET tk == [task[t] EXCEPT !.get = o] IN
       CASE o = "ok" /\ ~PatchRaises(tk.op, GetResult) ->
              /\ task' = [task EXCEPT ![t] =
                             [tk EXCEPT !.pc = "put",
                                        !.fetched = GetResult,
                                        !.served = device_settings,
                                        !.body = BuildBody(tk.op, tk.arg, GetResult),
                                        !.log = Append(@, "PUT")]]
              /\ UNCHANGED optimistic
              /\ data' = IF HasPayload("settings")
                           THEN [data EXCEPT !["settings"] =
                                    PayloadOf(BuildBody(tk.op, tk.arg, GetResult))]
                           ELSE data
         [] o = "ok" /\ PatchRaises(tk.op, GetResult) ->
              /\ task' = [task EXCEPT ![t] =
                             ExceptionTask([tk EXCEPT !.fetched = GetResult,
                                                      !.served = device_settings])]
              /\ optimistic' = ClearOptimistic(tk.op)
              /\ UNCHANGED data
         [] o = "raise" ->
              /\ task' = [task EXCEPT ![t] = ExceptionTask(tk)]
              /\ optimistic' = ClearOptimistic(tk.op)
              /\ UNCHANGED data
         [] OTHER ->
              /\ task' = [task EXCEPT ![t] = PrefetchFailedTask(tk)]
              /\ optimistic' = ClearOptimistic(tk.op)
              /\ UNCHANGED data
    /\ UNCHANGED <<device_settings, device_power, ops_started, last_update_success>>
\* get_settings returns (or raises); on a usable document the operation
\* normalizes it, applies its change and suspends in update_settings.
GetReturns(t, o) ==
    /\ task[t].pc = "get"
    /\ LET tk == [task[t] EXCEPT !.get = o] IN
       CASE o = "ok" /\ ~PatchRaises(tk.op, GetResult) ->
              /\ task' = [task EXCEPT ![t] =
                             [tk EXCEPT !.pc = "put",
                                        !.fetched = GetResult,
                                        !.served = device_settings,
                                        !.body = BuildBody(tk.op, tk.arg, GetResult),
                                        !.log = Append(@, "PUT")]]
              /\ UNCHANGED optimistic
         [] o = "ok" /\ PatchRaises(tk.op, GetResult) ->
              /\ task' = [task EXCEPT ![t] =
                             ExceptionTask([tk EXCEPT !.fetched = GetResult,
                                                      !.served = device_settings])]
              /\ optimistic' = ClearOptimistic(tk.op)
         [] o = "raise" ->
              /\ task' = [task EXCEPT ![t] = ExceptionTask(tk)]
              /\ optimistic' = ClearOptimistic(tk.op)
         [] OTHER ->
              /\ task' = [task EXCEPT ![t] = PrefetchFailedTask(tk)]
              /\ optimistic' = ClearOptimistic(tk.op)
    /\ UNCHANGED <<device_settings, device_power, ops_started, data, last_update_success>>

PutReturnsSendsChangeOnly(t, o) ==
    /\ task[t].pc = "put"
    /\ LET tk == [task[t] EXCEPT !.put = o] IN
       IF o \in {"null_response", "raise"}
         THEN /\ task' = [task EXCEPT ![t] = ExceptionTask(tk)]
              /\ optimistic' = ClearOptimistic(tk.op)
              /\ UNCHANGED device_settings
         ELSE /\ task' = [task EXCEPT ![t] = [tk EXCEPT !.pc = "sleep"]]
              /\ device_settings' =
                    IF o \in {"accepted", "result_only"}
                      THEN CASE tk.op \in {"threshold", "esm_on", "esm_off"} ->
                                  [device_settings EXCEPT
                                      !.energySavingMode = tk.body.energySavingMode]
                             [] tk.op = "backup" ->
                                  [device_settings EXCEPT
                                      !.bmsBackupLevel = tk.body.bmsBackupLevel]
                             [] OTHER ->
                                  [device_settings EXCEPT
                                      !.defaultMode = tk.body.defaultMode]
                      ELSE device_settings
              /\ UNCHANGED optimistic
    /\ UNCHANGED <<device_power, ops_started, data, last_update_success>>
\* update_settings returns (or raises): the device applies an accepted
\* document, and the operation sleeps 2 s or 1 s before it refreshes.
PutReturns(t, o) ==
    /\ task[t].pc = "put"
    /\ LET tk == [task[t] EXCEPT !.put = o] IN
       IF o \in {"null_response", "raise"}
         THEN /\ task' = [task EXCEPT ![t] = ExceptionTask(tk)]
              /\ optimistic' = ClearOptimistic(tk.op)
              /\ UNCHANGED device_settings
         ELSE /\ task' = [task EXCEPT ![t] = [tk EXCEPT !.pc = "sleep"]]
              /\ device_settings' =
                    IF o \in {"accepted", "result_only"}
                      THEN DeviceApplies(tk.body)
                      ELSE device_settings
              /\ UNCHANGED optimistic
    /\ UNCHANGED <<device_power, ops_started, data, last_update_success>>

\* set_device_power returns (its body is not looked at) or raises.
PowerReturns(t, o) ==
    /\ task[t].pc = "command"
    /\ LET tk == [task[t] EXCEPT !.put = o] IN
       IF o = "raise"
         THEN /\ task' = [task EXCEPT ![t] = ExceptionTask(tk)]
              /\ optimistic' = ClearOptimistic(tk.op)
              /\ UNCHANGED device_power
         ELSE /\ task' = [task EXCEPT ![t] = [tk EXCEPT !.pc = "sleep"]]
              /\ device_power' = IF o = "switched" THEN (tk.arg.value = 1)
                                 ELSE device_power
              /\ UNCHANGED optimistic
    /\ UNCHANGED <<device_settings, ops_started, data, last_update_success>>

\* What send_device_command and mark_all_notifications_read can yield: a
\* body whose "successful" is true, is false (make_request's failure object
\* among them) or is missing, a null body (result.get raises) or an
\* exception.
CommandOutcomes == {"accepted", "rejected", "bare", "null_response", "raise"}

\* send_device_command returns (or raises).
ModeCommandReturns(t, o) ==
    /\ task[t].pc = "mode_command"
    /\ LET tk == [task[t] EXCEPT !.put = o] IN
       IF o \in {"null_response", "raise"}
         THEN task' = [task EXCEPT ![t] = ExceptionTask(tk)]
         ELSE task' = [task EXCEPT ![t] = [tk EXCEPT !.pc = "sleep"]]
    /\ UNCHANGED <<device_settings, device_power, optimistic, ops_started, data,
                   last_update_success>>

StopCommandReturnsChecksFlag(t, o) ==
    /\ task[t].pc = "stop_command"
    /\ LET tk == [task[t] EXCEPT !.put = o] IN
       IF o \in {"null_response", "raise"}
         THEN task' = [task EXCEPT ![t] = ExceptionTask(tk)]
         ELSE IF o = "accepted"
           THEN task' = [task EXCEPT ![t] = [tk EXCEPT !.pc = "sleep"]]
           ELSE task' = [task EXCEPT ![t] = [tk EXCEPT !.pc = "done"]]
    /\ UNCHANGED <<device_settings, device_power, optimistic, ops_started, data,
                   last_update_success>>
\* The stop button's send_device_command returns (or raises): one second of
\* sleep in both branches, a refresh at once in the except block.
StopCommandReturns(t, o) ==
    /\ task[t].pc = "stop_command"
    /\ LET tk == [task[t] EXCEPT !.put = o] IN
       IF o \in {"null_response", "raise"}
         THEN task' = [task EXCEPT ![t] = ExceptionTask(tk)]
         ELSE task' = [task EXCEPT ![t] = [tk EXCEPT !.pc = "sleep"]]
    /\ UNCHANGED <<device_settings, device_power, optimistic, ops_started, data,
                   last_update_success>>

\* mark_all_notifications_read returns (or raises): a refresh is requested
\* when the body's "successful" is true; otherwise the press only logs.
MarkReadReturns(t, o) ==
    /\ task[t].pc = "mark_read"
    /\ LET tk == [task[t] EXCEPT !.put = o] IN
       IF o = "accepted"
         THEN task' = [task EXCEPT ![t] =
                          [tk EXCEPT !.pc = "done", !.log = Append(@, "REFRESH")]]
         ELSE task' = [task EXCEPT ![t] = [tk EXCEPT !.pc = "done"]]
    /\ UNCHANGED <<device_settings, device_power, optimistic, ops_started, data,
                   last_update_success>>

CompletionValueReasserts(t) == RequestedValue(task[t].op, task[t].arg)
\* What the operation leaves in the optimistic value when it completes.
CompletionValue(t) == NoValue

\* The sleep is over: async_request_refresh, then the optimistic value is
\* cleared and the operation returns normally.
SleepEnds(t) ==
    /\ task[t].pc = "sleep"
    /\ task' = [task EXCEPT ![t].pc = "done", ![t].log = Append(@, "REFRESH")]
    /\ optimistic' =
          IF EntityOf(task[t].op) \in OptimisticEntities
            THEN [optimistic EXCEPT ![EntityOf(task[t].op)] = CompletionValue(t)]
            ELSE optimistic
    /\ UNCHANGED <<device_settings, device_power, ops_started, data, last_update_success>>

\* The caller has its answer; the task is free again.
OpReturns(t) ==
    /\ task[t].pc = "done"
    /\ task' = [task EXCEPT ![t] = IdleTask]
    /\ UNCHANGED <<device_settings, device_power, optimistic, ops_started, data,
                   last_update_success>>

\* The outcomes of the fetches of a whole poll cycle, as far as the entities
\* can tell them apart: all sections arrive, the settings fetch fails, or
\* every section they read is lost.
AllPayload == [s \in Sections |-> "payload"]
CycleOutcomes ==
    {AllPayload,
     [AllPayload EXCEPT !["settings"] = "failure"],
     [AllPayload EXCEPT !["settings"] = "null_result", !["status"] = "failure",
                        !["device"] = "raise"]}

CycleResultKeepsSnapshot(ov) == data
\* The snapshot a whole cycle assembles from the fetch outcomes ov.
CycleResult(ov) == [s \in Sections |-> StoreSection(s, ov[s])]

\* _handle_coordinator_update of the four optimistic entities.
HandleCoordinatorUpdate == NoOptimistic

\* A poll cycle runs to its end: the snapshot is replaced and every
\* listener's _handle_coordinator_update is called.
CoordinatorUpdate(ov) ==
    /\ data' = CycleResult(ov)
    /\ last_update_success' = TRUE
    /\ optimistic' = HandleCoordinatorUpdate
    /\ UNCHANGED <<device_settings, device_power, task, ops_started>>

\* ---- entity reads ----
SnapshotThreshold ==
    IF HasPayload("device") /\ data["device"].doc.houseConsumptionThreshold # Absent
      THEN data["device"].doc.houseConsumptionThreshold
    ELSE IF /\ HasPayload("settings")
            /\ data["settings"].doc.energySavingMode.t = "map"
            /\ data["settings"].doc.energySavingMode.houseConsumptionThreshold # Absent
      THEN data["settings"].doc.energySavingMode.houseConsumptionThreshold
    ELSE 300

SnapshotBackup ==
    IF HasPayload("settings") /\ data["settings"].doc.bmsBackupLevel # Absent
      THEN data["settings"].doc.bmsBackupLevel
    ELSE IF HasPayload("status") /\ data["status"].doc.batteryBackupLevel # Absent
      THEN data["status"].doc.batteryBackupLevel
    ELSE 0

SnapshotEsm ==
    IF /\ HasPayload("settings")
       /\ data["settings"].doc.energySavingMode.t = "map"
       /\ data["settings"].doc.energySavingMode.enabled = 1
      THEN 1 ELSE 0

SnapshotPower ==
    IF HasPayload("device") /\ data["device"].doc.powerState THEN 1 ELSE 0

\* What the entity shows when it holds no optimistic value.
SnapshotValue(e) ==
    CASE e = "threshold" -> SnapshotThreshold
      [] e = "backup" -> SnapshotBackup
      [] e = "esm" -> SnapshotEsm
      [] e = "power" -> SnapshotPower

\* native_value / is_on.
Read(e) == IF optimistic[e] # NoValue THEN optimistic[e] ELSE SnapshotValue(e)

(***************************************************************************)
(* Specifications                                                          *)
(***************************************************************************)
AuthIdle ==
    /\ access_token = NoToken
    /\ token_expiration = NoExpiry
    /\ store = NoRecord
    /\ now = 0
    /\ issued = 0
    /\ rq = [c \in Callers |-> IdleReq]
    /\ setup = NewSetup
    /\ flow = NoFlow
    /\ event = NoEvent

PollIdle ==
    /\ data = NoData
    /\ last_update_success = FALSE
    /\ results = NoData
    /\ fetched = NotFetched
    /\ pos = 0
    /\ faults = 0

PatchIdle ==
    /\ device_power = TRUE
    /\ optimistic = NoOptimistic
    /\ task = [t \in Tasks |-> IdleTask]
    /\ ops_started = 0

\* make_request and connect under two concurrent callers.
InitReq == AuthIdle /\ PollIdle /\ PatchIdle /\ device_settings = DocFull

NextReq ==
    \/ \E c \in Callers : StartRequest(c) /\ UNCHANGED <<pollVars, snapVars, patchVars, setup, flow, event>>
    \/ \E c \in Callers, r \in SignInResponses :
          EnsureConnectOk(c, r) /\ UNCHANGED <<pollVars, snapVars, patchVars, setup, flow, event>>
    \/ \E c \in Callers, r \in SignInResponses :
          EnsureConnectFail(c, r) /\ UNCHANGED <<pollVars, snapVars, patchVars, setup, flow, event>>
    \/ \E c \in Callers : SendFirst(c) /\ UNCHANGED <<pollVars, snapVars, patchVars, setup, flow, event>>
    \/ \E c \in Callers, r \in Responses :
          FirstResponse(c, r) /\ UNCHANGED <<pollVars, snapVars, patchVars, setup, flow, event>>
    \/ \E c \in Callers, r \in SignInResponses :
          ReauthOk(c, r) /\ UNCHANGED <<pollVars, snapVars, patchVars, setup, flow, event>>
    \/ \E c \in Callers, r \in SignInResponses :
          ReauthFail(c, r) /\ UNCHANGED <<pollVars, snapVars, patchVars, setup, flow, event>>
    \/ \E c \in Callers : SendRetry(c) /\ UNCHANGED <<pollVars, snapVars, patchVars, setup, flow, event>>
    \/ \E c \in Callers, r \in Responses :
          RetryResponse(c, r) /\ UNCHANGED <<pollVars, snapVars, patchVars, setup, flow, event>>
    \/ \E c \in Callers : ReturnRequest(c) /\ UNCHANGED <<pollVars, snapVars, patchVars, setup, flow, event>>
    \/ \E d \in TickSteps : Tick(d) /\ UNCHANGED <<pollVars, snapVars, patchVars, setup, flow, event>>

SpecReq == InitReq /\ [][NextReq]_vars

\* Startup against a Store an earlier run may have written, then the
\* requests of the running integration.
InitSetup ==
    /\ access_token = NoToken
    /\ token_expiration = NoExpiry
    /\ store \in PersistedRecords
    /\ now = 0
    /\ issued = 0
    /\ rq = [c \in Callers |-> IdleReq]
    /\ setup = NewSetup
    /\ flow = NoFlow
    /\ event = NoEvent
    /\ PollIdle /\ PatchIdle /\ device_settings = DocFull

NextSetup ==
    \/ SetupConnects /\ UNCHANGED <<pollVars, snapVars, patchVars, flow, event>>
    \/ \E r \in SignInResponses :
          SetupSignInResponse(r) /\ UNCHANGED <<pollVars, snapVars, patchVars, flow, event>>
    \/ SetupConnected /\ UNCHANGED <<pollVars, snapVars, patchVars, flow, event>>
    \/ SetupFirstRefresh /\ UNCHANGED <<pollVars, snapVars, patchVars, flow, event>>
    \/ SetupRetry /\ UNCHANGED <<pollVars, snapVars, patchVars, flow, event>>
    \/ /\ setup.pc # "ready"
       /\ \E d \in TickSteps : Tick(d) /\ UNCHANGED <<pollVars, snapVars, patchVars, setup, flow, event>>
    \/ setup.pc = "ready" /\ NextReq

SpecSetup == InitSetup /\ [][NextSetup]_vars

\* The coordinator's poll cycles against a device whose documents stay put.
InitPoll == AuthIdle /\ PollIdle /\ PatchIdle /\ device_settings = DocFull

NextPoll ==
    \/ StartCycle /\ UNCHANGED <<authVars, patchVars, setup, flow, event>>
    \/ \E o \in Outcomes : Fetch(o) /\ UNCHANGED <<authVars, patchVars, setup, flow, event>>
    \/ FinishCycle /\ UNCHANGED <<authVars, patchVars, setup, flow, event>>

SpecPoll == InitPoll /\ [][NextPoll]_vars

\* Entity operations, one at a time per task, against the device, with poll
\* cycles completing in between.
InitPatch ==
    /\ AuthIdle /\ PollIdle /\ PatchIdle
    /\ device_settings \in InitDocs

NextPatch ==
    \/ \E t \in Tasks, op \in Ops : \E arg \in ArgsOf(op) :
          StartOp(t, op, arg) /\ UNCHANGED <<authVars, pollVars, setup, flow, event>>
    \/ \E t \in Tasks, o \in GetOutcomes : GetReturns(t, o) /\ UNCHANGED <<authVars, pollVars, setup, flow, event>>
    \/ \E t \in Tasks, o \in PutOutcomes : PutReturns(t, o) /\ UNCHANGED <<authVars, pollVars, setup, flow, event>>
    \/ \E t \in Tasks, o \in PowerOutcomes :
          PowerReturns(t, o) /\ UNCHANGED <<authVars, pollVars, setup, flow, event>>
    \/ \E t \in Tasks, o \in CommandOutcomes :
          ModeCommandReturns(t, o) /\ UNCHANGED <<authVars, pollVars, setup, flow, event>>
    \/ \E t \in Tasks, o \in CommandOutcomes :
          StopCommandReturns(t, o) /\ UNCHANGED <<authVars, pollVars, setup, flow, event>>
    \/ \E t \in Tasks, o \in CommandOutcomes :
          MarkReadReturns(t, o) /\ UNCHANGED <<authVars, pollVars, setup, flow, event>>
    \/ \E t \in Tasks : SleepEnds(t) /\ UNCHANGED <<authVars, pollVars, setup, flow, event>>
    \/ \E t \in Tasks : OpReturns(t) /\ UNCHANGED <<authVars, pollVars, setup, flow, event>>
    \/ \E ov \in CycleOutcomes : CoordinatorUpdate(ov) /\ UNCHANGED <<authVars, pollVars, setup, flow, event>>

SpecPatch == InitPatch /\ [][NextPatch]_vars

\* Submissions of the setup form and of the options form, against a device
\* in any disposition towards the sign-in.
InitFlow == AuthIdle /\ PollIdle /\ PatchIdle /\ device_settings = DocFull

NextFlow ==
    \E step \in FlowSteps, user_type \in UserTypes, inverter_sn \in SerialInputs,
       r \in SignInResponses :
        /\ FlowSubmit(step, user_type, inverter_sn, r)
        /\ UNCHANGED <<authVars, pollVars, snapVars, patchVars, setup, event>>

SpecFlow == InitFlow /\ [][NextFlow]_vars

\* The first refresh and the later coordinator updates, with the event
\* platform set up after the first refresh.
InitEvent == AuthIdle /\ PollIdle /\ PatchIdle /\ device_settings = DocFull

NextEvent ==
    \/ \E sec \in NotifSections :
          EventUpdate(sec) /\ UNCHANGED <<authVars, pollVars, snapVars, patchVars, setup, flow>>
    \/ EventAdded /\ UNCHANGED <<authVars, pollVars, snapVars, patchVars, setup, flow>>

SpecEvent == InitEvent /\ [][NextEvent]_vars

\* Two entity operations at the same time, on one entity or on two: each
\* async_set_native_value / async_turn_on / async_turn_off runs as its own
\* task on the event loop and suspends at every await, with poll cycles
\* completing in between.
RaceTasks == {"t1", "t2"}
\* Operations of the number entities and of the power switch.
RaceOps == NumberOps \cup PowerOps
RaceGetOutcomes == {"ok", "failure"}
RacePutOutcomes == {"accepted", "rejected"}

InitRace ==
    /\ AuthIdle /\ PollIdle
    /\ device_power = TRUE
    /\ optimistic = NoOptimistic
    /\ task = [t \in RaceTasks |-> IdleTask]
    /\ ops_started = 0
    /\ device_settings = DocFull

\* A poll cycle of which every fetch brings its payload runs to its end.
PollSucceeds == CoordinatorUpdate(AllPayload) /\ UNCHANGED <<authVars, pollVars, setup, flow, event>>

NextRace ==
    \/ \E t \in RaceTasks, op \in RaceOps : \E arg \in ArgsOf(op) :
          StartOp(t, op, arg) /\ UNCHANGED <<authVars, pollVars, setup, flow, event>>
    \/ \E t \in RaceTasks, o \in RaceGetOutcomes :
          GetReturns(t, o) /\ UNCHANGED <<authVars, pollVars, setup, flow, event>>
    \/ \E t \in RaceTasks, o \in RacePutOutcomes :
          PutReturns(t, o) /\ UNCHANGED <<authVars, pollVars, setup, flow, event>>
    \/ \E t \in RaceTasks, o \in PowerOutcomes :
          PowerReturns(t, o) /\ UNCHANGED <<authVars, pollVars, setup, flow, event>>
    \/ \E t \in RaceTasks : SleepEnds(t) /\ UNCHANGED <<authVars, pollVars, setup, flow, event>>
    \/ \E t \in RaceTasks : OpReturns(t) /\ UNCHANGED <<authVars, pollVars, setup, flow, event>>
    \/ \E ov \in CycleOutcomes :
          CoordinatorUpdate(ov) /\ UNCHANGED <<authVars, pollVars, setup, flow, event>>

SpecRace == InitRace /\ [][NextRace]_vars

\* The same, with the coordinator's update_interval timer starting one
\* cycle after another and cycles whose fetches all succeed among them.
SpecRaceFair == SpecRace /\ WF_vars(PollSucceeds)

(***************************************************************************)
(* Claims                                                                  *)
(***************************************************************************)

\* C1 (as amended): a call of make_request whose first response is a 401
\* starts exactly one re-authentication; when that sign-in succeeds the
\* request is sent exactly once more and what the retry yields is returned
\* (a JSON body as it is, a second 401 included; anything else as a failure
\* object); when the sign-in fails no retry is sent and a failure object is
\* returned.  In neither case is there a second re-authentication or retry.
C1_OneReauthOneRetry ==
    \A c \in Callers :
        rq[c].first401 =>
            /\ rq[c].reauths = 1
            /\ rq[c].sends <= 2
            /\ rq[c].pc = "done" =>
                 IF rq[c].reauth_ok
                   THEN /\ rq[c].sends = 2
                        /\ rq[c].retry_resp \in Responses
                        /\ (rq[c].retry_resp.json =>
                              rq[c].result = JsonBody(rq[c].retry_resp.status))
                        /\ (~rq[c].retry_resp.json => rq[c].result.kind = "failure")
                   ELSE /\ rq[c].sends = 1
                        /\ rq[c].result.kind = "failure"

\* A first 401, a successful sign-in, and a second 401 on the retry that is
\* handed back as it is.
C1_Witness ==
    \E c \in Callers :
        /\ rq[c].pc = "done" /\ rq[c].first401 /\ rq[c].reauth_ok
        /\ rq[c].retry_resp = [status |-> 401, json |-> TRUE]
        /\ rq[c].result = JsonBody(401)

\* C1 as stated: every call whose first response is a 401 ends with one
\* re-authentication and the request sent exactly one more time.
C1_AlwaysRetried ==
    \A c \in Callers :
        (rq[c].pc = "done" /\ rq[c].first401) =>
            (rq[c].reauths = 1 /\ rq[c].sends = 2)

IsMapping(v) == v.kind \in {"empty", "payload", "failure"}

\* C2: every published snapshot binds each of the eleven sections to a
\* mapping, never to null and never leaves it out.
C2_SectionsAreMappings ==
    data # NoData => \A s \in Sections : IsMapping(data[s])

FailedFetch(o) == o \in {"raise", "failure"}

\* C3: when a cycle ends in which exactly one non-core fetch failed (raised,
\* or yielded make_request's failure object) and every other fetch brought
\* its payload, the published snapshot holds the empty mapping for that
\* section, the payload for every other one, and the cycle counts as
\* successful.
C3_OneFailureIsolated ==
    [][\A f \in Sections \ CoreSections :
          ( /\ FinishCycle
            /\ FailedFetch(fetched[f])
            /\ \A s \in Sections \ {f} : fetched[s] = "payload" )
          => ( /\ data'[f] = EmptyMap
               /\ \A s \in Sections \ {f} : data'[s] = PayloadOf(DeviceDoc(s))
               /\ last_update_success' )]_vars

\* C4: when a cycle ends in which the status fetch and the device fetch both
\* failed, the cycle is reported failed and the snapshot stays as the
\* previous cycle published it.
C4_CoreFailureKeepsSnapshot ==
    [][( /\ FinishCycle
         /\ data # NoData
         /\ FailedFetch(fetched["status"])
         /\ FailedFetch(fetched["device"]) )
       => (data' = data /\ ~last_update_success')]_vars

Submitted(t) == task[t].body # NoDoc

\* C5: in the body of every PUT, country, city and timezone are not objects,
\* and where the fetched document held an object with its identifier the
\* body holds that identifier (geonameId, geonameId, id), whatever field
\* the operation changes.
C5_CompositesFlattened ==
    \A t \in Tasks :
        Submitted(t) =>
            LET b == task[t].body
                f == task[t].fetched
            IN  /\ b.country.t # "obj" /\ b.city.t # "obj" /\ b.timezone.t # "obj"
                /\ (f.country.t = "obj" /\ f.country.geonameId # Absent)
                      => b.country = Prim(f.country.geonameId)
                /\ (f.city.t = "obj" /\ f.city.geonameId # Absent)
                      => b.city = Prim(f.city.geonameId)
                /\ (f.timezone.t = "obj" /\ f.timezone.id # Absent)
                      => b.timezone = Prim(f.timezone.id)
                /\ f.country.t # "obj" => b.country = f.country
                /\ f.city.t # "obj" => b.city = f.city
                /\ f.timezone.t # "obj" => b.timezone = f.timezone

\* A backup-level write whose fetched document holds all three as objects.
C5_Witness ==
    \E t \in Tasks :
        /\ task[t].pc = "put" /\ task[t].op = "backup"
        /\ task[t].fetched.country.t = "obj"
        /\ task[t].fetched.city.t = "obj"
        /\ task[t].fetched.timezone.t = "obj"
        /\ task[t].body.timezone = Prim(9)

TopFields ==
    {"country", "city", "timezone", "energySavingMode", "bmsBackupLevel", "defaultMode"}
TargetTop(op) ==
    CASE op = "backup" -> "bmsBackupLevel"
      [] op = "default_mode" -> "defaultMode"
      [] OTHER -> "energySavingMode"

\* C6: the body of every PUT holds the requested value in the targeted field
\* and is otherwise the normalized fetched document: every other top-level
\* field, and the sibling inside energySavingMode, is submitted unchanged.
C6_OnlyTargetChanged ==
    \A t \in Tasks :
        Submitted(t) =>
            LET b == task[t].body
                n == Normalize(task[t].fetched)
                op == task[t].op
                v == RequestedValue(op, task[t].arg)
            IN  /\ \A k \in TopFields \ {TargetTop(op)} : b[k] = n[k]
                /\ op = "threshold" =>
                     /\ b.energySavingMode.t = "map"
                     /\ b.energySavingMode.houseConsumptionThreshold = v
                     /\ b.energySavingMode.enabled = n.energySavingMode.enabled
                /\ op \in SwitchPatchOps =>
                     /\ b.energySavingMode.t = "map"
                     /\ b.energySavingMode.enabled = v
                     /\ b.energySavingMode.houseConsumptionThreshold =
                            n.energySavingMode.houseConsumptionThreshold
                /\ op = "backup" => b.bmsBackupLevel = v
                /\ op = "default_mode" =>
                     b.defaultMode.command = OptionToCmd(task[t].arg.option)

\* A threshold write of a new value into a document whose energySavingMode
\* is enabled, and an energy-saving toggle beside a threshold.
C6_Witness ==
    \E t \in Tasks :
        /\ task[t].pc = "put" /\ task[t].op = "threshold"
        /\ task[t].fetched.energySavingMode.enabled = 1
        /\ task[t].fetched.energySavingMode.houseConsumptionThreshold = 450
        /\ task[t].body.energySavingMode = Esm(1, 300)

IndexOf(l, ev) == {i \in 1..Len(l) : l[i] = ev}

\* C7: an operation that edits the settings starts with its own GET; the
\* document it edits is the one the device served to that GET, not the
\* snapshot's; a PUT comes only after a GET that succeeded, and the refresh
\* request comes after both.
C7_FreshGetThenPutThenRefresh ==
    \A t \in Tasks :
        LET l == task[t].log IN
        /\ (task[t].op \in PatchOps /\ task[t].pc \in {"get", "put", "sleep"})
              => (Len(l) >= 1 /\ l[1] = "GET")
        /\ IndexOf(l, "PUT") # {} =>
              /\ task[t].get = "ok"
              /\ task[t].fetched = task[t].served
              /\ \A i \in IndexOf(l, "PUT") : \E j \in IndexOf(l, "GET") : j < i
        /\ \A i \in IndexOf(l, "REFRESH") :
              \A j \in IndexOf(l, "GET") \cup IndexOf(l, "PUT") : j < i
        /\ Cardinality(IndexOf(l, "GET")) <= 1
        /\ Cardinality(IndexOf(l, "PUT")) <= 1

\* A finished write whose fetched document differs from the snapshot's
\* settings section.
C7_Witness ==
    \E t \in Tasks :
        /\ task[t].pc = "done"
        /\ task[t].log = <<"GET", "PUT", "REFRESH">>
        /\ HasPayload("settings")
        /\ data["settings"].doc # task[t].fetched

\* C8: when the pre-fetch fails (failure object, empty or null result, null
\* body, exception) the operation submits no PUT.
C8_NoPutAfterFailedPrefetch ==
    \A t \in Tasks :
        task[t].get \in GetOutcomes \ {"ok"} =>
            /\ IndexOf(task[t].log, "PUT") = {}
            /\ ~Submitted(t)
            /\ task[t].pc = "done"

\* An energy-saving switch whose pre-fetch came back with an empty result.
C8_Witness ==
    \E t \in Tasks :
        /\ task[t].op = "esm_on" /\ task[t].get = "empty_result"
        /\ task[t].pc = "done"

PatchFailed(t) ==
    \/ task[t].get \in GetOutcomes \ {"ok"}
    \/ task[t].put \in {"rejected", "null_response", "raise"}
    \/ (task[t].get = "ok" /\ ~Submitted(t))

\* C9: every settings patch that failed ends with an error for the caller,
\* after the optimistic value was cleared and a refresh was requested.
C9_FailureRaisesAfterRefresh ==
    \A t \in Tasks :
        (task[t].pc = "done" /\ task[t].op \in PatchOps /\ PatchFailed(t)) =>
            /\ task[t].error
            /\ IndexOf(task[t].log, "REFRESH") # {}

Starts(t, e) ==
    /\ task[t].pc = "idle"
    /\ task'[t].pc # "idle"
    /\ EntityOf(task'[t].op) = e

\* C10: a step that starts an operation makes the entity read the recorded
\* value; a coordinator update clears every optimistic value; and an entity
\* without optimistic value gets one only by a new operation being started,
\* so until then it reads the snapshot's value.
C10_OptimisticUntilUpdate ==
    [][\A e \in OptimisticEntities :
          /\ \A t \in Tasks :
                Starts(t, e) => Read(e)' = RequestedValue(task'[t].op, task'[t].arg)
          /\ (\E ov \in CycleOutcomes : CoordinatorUpdate(ov)) =>
                (optimistic'[e] = NoValue /\ Read(e)' = SnapshotValue(e)')
          /\ (optimistic[e] = NoValue /\ ~\E t \in Tasks : Starts(t, e)) =>
                (optimistic'[e] = NoValue /\ Read(e)' = SnapshotValue(e)')]_vars

\* A threshold write still in flight after a coordinator update: the entity
\* reads the snapshot's value, which is not the requested one.
C10_Witness ==
    \E t \in Tasks :
        /\ task[t].op = "threshold" /\ task[t].pc = "sleep"
        /\ optimistic["threshold"] = NoValue
        /\ HasPayload("settings")
        /\ Read("threshold") # RequestedValue(task[t].op, task[t].arg)


\* A sign-in response in which connect finds no token it accepts: an error
\* object, an unexpected schema, a body that is not JSON, a status other
\* than 200.
LacksToken(r) ==
    /\ r \in SignInResponses
    /\ r.exc = ""
    /\ (~r.json \/ r.status # 200 \/ ~r.token)

C12_SuccessfulConnectStores ==
    [][LET Stored ==
             /\ issued' = issued + 1
             /\ access_token' = issued'
             /\ token_expiration' = now + TokenLifetime
             /\ store' = [access_token |-> issued',
                          token_expiration |-> now + TokenLifetime]
       IN  /\ \A c \in Callers :
                (rq[c].pc \in {"auth0", "auth1"} /\ rq'[c].pc \in {"store0", "store1"})
                    => Stored
           /\ (setup.pc = "signin" /\ setup'.pc = "storing") => Stored
           /\ (setup.pc = "storing" /\ setup'.pc = "connected") =>
                /\ access_token = setup.granted
                /\ token_expiration = setup.at + TokenLifetime
                /\ store = [access_token |-> setup.granted,
                            token_expiration |-> setup.at + TokenLifetime]]_vars

\* A setup whose sign-in at minute 30 succeeded over a record of an earlier
\* run: connect() has returned and the Store holds the new token until 85.
C12_Witness ==
    /\ setup.pc = "connected"
    /\ setup.at = 30
    /\ setup.before.store # NoRecord
    /\ access_token = setup.granted
    /\ store = [access_token |-> setup.granted, token_expiration |-> 85]

\* C13: make_request starts with ensure_token_valid: the request goes out
\* at once, with no sign-in, when a token is held and the time is before
\* its expiry; in every other case a sign-in is started first.  No first
\* send happens any other way.
C13_SignInIffTokenUnusable ==
    [][\A c \in Callers :
          LET usable ==
                  /\ access_token # NoToken
                  /\ token_expiration # NoExpiry
                  /\ now < token_expiration
          IN  /\ (rq[c].pc = "idle" /\ rq'[c].pc # "idle") =>
                   /\ usable => (rq'[c].pc = "wait1" /\ rq'[c].sends = 1)
                   /\ ~usable => (rq'[c].pc = "auth0" /\ rq'[c].sends = 0)
              /\ (rq[c].sends = 0 /\ rq'[c].sends = 1) =>
                   \/ rq[c].pc = "idle" /\ usable
                   \/ rq[c].pc = "store0"]_vars

\* A call that found a token whose expiry has been reached and started a
\* sign-in.
C13_Witness ==
    \E c \in Callers :
        /\ rq[c].pc = "auth0"
        /\ access_token # NoToken
        /\ token_expiration # NoExpiry
        /\ now >= token_expiration

\* C14: a response that is not JSON, the first one or the one to the retry
\* after a 401, makes make_request return a failure object that carries
\* the HTTP status of that response.
C14_NonJsonFailureCarriesStatus ==
    \A c \in Callers :
        rq[c].pc = "done" =>
            /\ (/\ rq[c].first_resp \in HttpResponses
                /\ rq[c].first_resp.status # 401
                /\ ~rq[c].first_resp.json) =>
                   rq[c].result = Failure(rq[c].first_resp.status)
            /\ (rq[c].retry_resp \in HttpResponses /\ ~rq[c].retry_resp.json) =>
                   rq[c].result = Failure(rq[c].retry_resp.status)

\* C15: a setup that finds a persisted token whose expiry has not been
\* reached sends no sign-in request.
C15_StoredTokenReused ==
    (setup.pc # "new" /\ setup.reusable) => setup.signins = 0

\* C17: at most one sign-in is in flight at any moment.
C17_SingleFlightSignIn ==
    Cardinality({c \in Callers : rq[c].pc \in {"auth0", "auth1"}}) <= 1


\* C18: the published snapshot is never partly assembled.  It holds every
\* section or none (before the first cycle ends); while a cycle fetches it
\* stays as it is, and it changes only in the step that ends the cycle, to
\* the mapping the cycle assembled with every section in it.
C18_SnapshotSwappedWhole ==
    [][/\ (data = NoData \/ \A s \in Sections : data[s] # Unset)
       /\ (pos \in 1..NumSections => data' = data)
       /\ (data' # data =>
              /\ pos = NumSections + 1
              /\ data' = results
              /\ \A s \in Sections : results[s] # Unset)]_vars

\* A cycle is under way and has stored a section that differs from the one
\* in the published snapshot, which is still the previous cycle's.
C18_Witness ==
    /\ pos \in 2..NumSections
    /\ \A s \in Sections : data[s] # Unset
    /\ \E s \in Sections : results[s] # Unset /\ results[s] # data[s]


\* The step in which task t hands the default mode cmd to update_settings,
\* and the one in which it hands the immediate mode cmd to
\* send_device_command.
SubmitsDefaultMode(t, cmd) ==
    /\ task[t].pc = "get"
    /\ task'[t].pc = "put"
    /\ task'[t].op = "default_mode"
    /\ task'[t].body.defaultMode.command = cmd
SubmitsCurrentMode(t, cmd) ==
    /\ task[t].pc = "idle"
    /\ task'[t].pc = "mode_command"
    /\ task'[t].command.command = cmd

\* The house-consumption threshold in a settings document; Absent if the
\* document has none.
ThresholdIn(doc) ==
    IF doc.energySavingMode.t = "map"
      THEN doc.energySavingMode.houseConsumptionThreshold ELSE Absent
SnapshotSettingsThreshold ==
    IF HasPayload("settings") THEN ThresholdIn(data["settings"].doc) ELSE Absent
SnapshotSettingsBackupLevel ==
    IF HasPayload("settings") THEN data["settings"].doc.bmsBackupLevel ELSE Absent

\* C19 (as amended): when SET_PEAK_SHAVING is selected as default mode and
\* the settings just fetched from the device hold the threshold v, or as
\* current mode and the settings section of the coordinator's snapshot
\* holds the threshold v, the submitted parameters hold
\* maxHousePeakConsumption = v.
C19_PeakShavingUsesThresholdAtHand ==
    [][\A t \in Tasks :
          /\ (/\ SubmitsDefaultMode(t, "SET_PEAK_SHAVING")
              /\ ThresholdIn(task'[t].fetched) # Absent) =>
                 task'[t].body.defaultMode.parameters.maxHousePeakConsumption =
                     ThresholdIn(task'[t].fetched)
          /\ (/\ SubmitsCurrentMode(t, "SET_PEAK_SHAVING")
              /\ SnapshotSettingsThreshold # Absent) =>
                 task'[t].command.parameters.maxHousePeakConsumption =
                     SnapshotSettingsThreshold]_vars

\* Peak shaving sent as current mode with the snapshot's threshold, 300,
\* while the device already holds another one.
C19_Witness ==
    \E t \in Tasks :
        /\ task[t].pc = "mode_command"
        /\ task[t].command.command = "SET_PEAK_SHAVING"
        /\ task[t].command.parameters.maxHousePeakConsumption = 300
        /\ SnapshotSettingsThreshold = 300
        /\ ThresholdIn(device_settings) = 450

\* C19 as stated, the current threshold being the one the device holds:
\* whenever SET_PEAK_SHAVING is selected, as default or as current mode of
\* an entity that is available, the submitted parameters hold the
\* device's threshold.
C19_PeakShavingUsesDeviceThreshold ==
    [][\A t \in Tasks :
          /\ (/\ SubmitsDefaultMode(t, "SET_PEAK_SHAVING")
              /\ ThresholdIn(device_settings) # Absent) =>
                 task'[t].body.defaultMode.parameters.maxHousePeakConsumption =
                     ThresholdIn(device_settings)
          /\ (/\ SubmitsCurrentMode(t, "SET_PEAK_SHAVING")
              /\ last_update_success
              /\ ThresholdIn(device_settings) # Absent) =>
                 task'[t].command.parameters.maxHousePeakConsumption =
                     ThresholdIn(device_settings)]_vars

\* bmsBackupLevel when it is a number, else the snapshot's
\* status.energyFlow.batteryBackupLevel when it is there, else 28.
FallbackChain(level) ==
    IF level # Absent THEN level
    ELSE IF HasPayload("status") /\ data["status"].doc.batteryBackupLevel # Absent
      THEN data["status"].doc.batteryBackupLevel
    ELSE 28

\* C20: whenever SET_FREQUENCY_REGULATION is submitted, as default mode (the
\* settings being the ones just fetched) or as current mode (the settings
\* being the snapshot's), optimalSoc is the settings' bmsBackupLevel when
\* it is a number, else the live status level when present, else 28.
C20_OptimalSocFallbackChain ==
    [][\A t \in Tasks :
          /\ SubmitsDefaultMode(t, "SET_FREQUENCY_REGULATION") =>
                 task'[t].body.defaultMode.parameters.optimalSoc =
                     FallbackChain(task'[t].fetched.bmsBackupLevel)
          /\ SubmitsCurrentMode(t, "SET_FREQUENCY_REGULATION") =>
                 task'[t].command.parameters.optimalSoc =
                     FallbackChain(SnapshotSettingsBackupLevel)]_vars


\* C21: in the setup flow and in the options flow, a submission with user
\* type tech and an empty inverter serial shows the form again with the
\* error required_inverter_sn on the inverter-serial field, and sends no
\* sign-in request.
C21_TechNeedsSerial ==
    (flow.submits > 0 /\ flow.user_type = "tech" /\ flow.inverter_sn = "") =>
        /\ flow.result = "form"
        /\ flow.errors = [field |-> "inverter_sn", key |-> "required_inverter_sn"]
        /\ flow.signins = 0

\* The options flow refused a technician without a serial, in front of a
\* device that would have granted the sign-in.
C21_Witness ==
    /\ flow.step = "init" /\ flow.user_type = "tech" /\ flow.inverter_sn = ""
    /\ flow.device = SignInGranted
    /\ flow.errors.field = "inverter_sn"

\* The cause of a failed sign-in, as the user can remedy it.
FailureCause(r) ==
    IF r.exc # "" THEN "unreachable"
    ELSE IF ~r.json THEN "malformed"
    ELSE IF r.error /\ r.description = "Wrong credentials" THEN "credentials"
    ELSE IF r.error /\ r.errCode = "Invalid inverter serial" THEN "serial"
    ELSE IF ~r.error THEN "malformed"
    ELSE "other"
\* The error keys config_flow.py spells out for these causes.
SpecificKeys(cause) ==
    CASE cause = "unreachable" -> {"cannot_connect"}
      [] cause = "credentials" -> {"err_wrong_credentials", "Error during authentication: 10"}
      [] cause = "serial" -> {"err_invalid_inverter_sn"}
      [] cause = "malformed" -> {NonJsonMessage, UnexpectedMessage}
      [] OTHER -> {}

\* C22: a submission that passes the validation and whose sign-in fails
\* because the device is unreachable, the credentials are rejected, the
\* inverter serial is invalid or the response is malformed shows the error
\* key of that cause, never a generic one.
C22_SpecificErrorKeys ==
    ( /\ flow.submits > 0
      /\ ~(flow.user_type = "tech" /\ flow.inverter_sn = "")
      /\ ~SignInSucceeds(flow.device)
      /\ FailureCause(flow.device) # "other" ) =>
        /\ flow.errors.field = "base"
        /\ flow.errors.key \in SpecificKeys(FailureCause(flow.device))


\* An operation that sent (or tried to send) a request to the device: every
\* started operation but a select given an option it does not know.
Mutating(t) ==
    /\ task[t].op \in Ops
    /\ ~(task[t].op \in SelectOps /\ task[t].arg.option \notin KnownOptions(task[t].op))
Refreshed(t) == \E i \in 1..Len(task[t].log) : task[t].log[i] = "REFRESH"

\* C23: every mutating user action (threshold, backup level, energy saving
\* on/off, power on/off, default mode, current mode, stop current
\* operation, mark all notifications read) has requested a refresh of the
\* snapshot when it completes, on its failure paths too.
C23_EveryActionRefreshes ==
    \A t \in Tasks : (task[t].pc = "done" /\ Mutating(t)) => Refreshed(t)

\* The direct device commands, and the outcomes in which the command's
\* request returned a response (with "successful" true, false or missing).
DirectOps == PowerOps \cup {"current_mode", "stop_operation"}
CommandPcs == {"command", "mode_command", "stop_command"}
ReturnedOutcomes == {"accepted", "rejected", "bare", "switched", "ignored"}

\* C24: when the request of a direct device command (power on, power off,
\* current mode, stop current operation) returns a response, the operation
\* goes to sleep without having requested a refresh, whatever the
\* response's "successful" says; the step that ends the sleep requests the
\* refresh; and a refresh is never requested before the command was sent.
C24_CommandWaitsThenRefreshes ==
    [][\A t \in Tasks :
          task[t].op \in DirectOps =>
            /\ (task[t].pc \in CommandPcs /\ task'[t].put \in ReturnedOutcomes) =>
                  (task'[t].pc = "sleep" /\ task'[t].log = task[t].log)
            /\ (task[t].pc = "sleep" /\ task'[t] # task[t]) =>
                  (task'[t].pc = "done" /\ task'[t].log = Append(task[t].log, "REFRESH"))
            /\ \A i \in 1..Len(task'[t].log) :
                  task'[t].log[i] = "REFRESH" =>
                      (i > 1 /\ task'[t].log[1] \in {"POWER", "COMMAND"})]_vars

\* The stop button was pressed, the device answered "successful": false,
\* and the press slept and then requested the refresh.
C24_Witness ==
    \E t \in Tasks :
        /\ task[t].op = "stop_operation" /\ task[t].pc = "done"
        /\ task[t].put = "rejected"
        /\ task[t].log = <<"COMMAND", "REFRESH">>


\* The value the operation asks for is the one the fetched document holds.
RequestedEqualsFetched(t) ==
    LET f == task[t].fetched
        v == RequestedValue(task[t].op, task[t].arg)
    IN  CASE task[t].op = "threshold" ->
               /\ f.energySavingMode.t = "map"
               /\ f.energySavingMode.houseConsumptionThreshold = v
          [] task[t].op = "backup" -> f.bmsBackupLevel = v
          [] task[t].op \in SwitchPatchOps ->
               f.energySavingMode.t = "map" /\ f.energySavingMode.enabled = v
          [] task[t].op = "default_mode" ->
               f.defaultMode.command = OptionToCmd(task[t].arg.option)
          [] OTHER -> FALSE
\* The document the device serves once it has accepted the task's body: the
\* submitted fields, country, city and timezone in the form it served them.
ServedAfter(t) ==
    [task[t].body EXCEPT !.country = task[t].served.country,
                         !.city = task[t].served.city,
                         !.timezone = task[t].served.timezone]
\* The body is the fetched document, normalized, and the same patch on the
\* document the device then holds builds the same body again.
UnchangedAndIdempotent(t) ==
    /\ task[t].body = Normalize(task[t].fetched)
    /\ BuildBody(task[t].op, task[t].arg, ServedAfter(t)) = task[t].body

\* C25 (as amended): a threshold, backup-level or energy-saving on/off
\* patch whose requested value equals the value in the fetched document
\* submits the fetched document with country, city and timezone normalized
\* and nothing else changed, and submits the same document when it is
\* applied a second time.
C25_UnchangedNumberOrSwitchPatchIsNoOp ==
    \A t \in Tasks :
        ( /\ task[t].pc = "put"
          /\ task[t].op \in NumberOps \cup SwitchPatchOps
          /\ RequestedEqualsFetched(t) ) => UnchangedAndIdempotent(t)

\* A threshold write of the value the device already holds, on a document
\* whose country, city and timezone came as objects.
C25_Witness ==
    \E t \in Tasks :
        /\ task[t].pc = "put" /\ task[t].op = "threshold"
        /\ RequestedEqualsFetched(t)
        /\ task[t].fetched.country.t = "obj"
        /\ task[t].body # task[t].fetched

\* C25 as stated: every settings patch, the default-mode select included,
\* whose requested value equals the value in the fetched document submits
\* the normalized fetched document, idempotently.
C25_UnchangedPatchIsNoOp ==
    \A t \in Tasks :
        ( /\ task[t].pc = "put"
          /\ task[t].op \in PatchOps
          /\ RequestedEqualsFetched(t) ) => UnchangedAndIdempotent(t)


\* What the device holds for a number entity's field.
DeviceValue(e) ==
    IF e = "threshold" THEN device_settings.energySavingMode.houseConsumptionThreshold
    ELSE device_settings.bmsBackupLevel
\* The device accepted the task's write, and no other mutation is under way
\* or can still be issued.
AcceptedLast(t) ==
    /\ task[t].pc \in {"sleep", "done"} /\ task[t].put = "accepted"
    /\ ops_started = MaxOps
    /\ \A u \in RaceTasks \ {t} : task[u].pc = "idle"
\* The snapshot holds the device's value and the entity reads it.
Shown(e) ==
    /\ optimistic[e] = NoValue
    /\ SnapshotValue(e) = DeviceValue(e)
    /\ Read(e) = DeviceValue(e)

OtherFields(op) == {"energySavingMode", "bmsBackupLevel", "defaultMode"} \ {TargetTop(op)}

\* C28: nothing holds a second settings patch back while the first is
\* between its fetch and its write, and an accepted write sets every field
\* it does not target to the value its own fetch saw, whatever the device
\* holds for the field by then: a change another patch wrote in between is
\* discarded.
C28_WriteRestoresFetchedFields ==
    [][\A t \in RaceTasks :
          (task[t].pc = "put" /\ task'[t].pc = "sleep" /\ task'[t].put = "accepted") =>
              \A f \in OtherFields(task[t].op) :
                  device_settings'[f] = task[t].fetched[f]]_vars

\* The lost update: a threshold write and a backup-level write fetched the
\* same document, the device accepted both, and it holds the new backup
\* level with the old threshold.
C28_Witness ==
    \E t, u \in RaceTasks :
        /\ task[t].op = "threshold" /\ task[u].op = "backup"
        /\ task[t].put = "accepted" /\ task[u].put = "accepted"
        /\ task[t].served = task[u].served
        /\ RequestedValue(task[t].op, task[t].arg) # DeviceValue("threshold")
        /\ RequestedValue(task[u].op, task[u].arg) = DeviceValue("backup")
        /\ DeviceValue("threshold") = task[t].served.energySavingMode.houseConsumptionThreshold
        /\ DeviceValue("backup") # task[u].served.bmsBackupLevel


GenericMessages == {GenericAuthMessage, NonJsonMessage, UnexpectedMessage}

\* C27: connect raises a connection error for every network-level failure
\* (no response: name resolution, refused connection, timeout) and an
\* authentication error for every response it does not accept, with the
\* error object's description as message, else its code, else a generic
\* message.
C27_ConnectClassifiesFailures ==
    setup.pc = "failed" =>
        LET r == setup.resp IN
        /\ r.exc # "" => setup.outcome = "connection_error"
        /\ r.exc = "" =>
              /\ setup.outcome = "auth_error"
              /\ (r.json /\ r.error /\ r.description # "") =>
                    setup.message = r.description
              /\ (r.json /\ r.error /\ r.description = "" /\ r.errCode # "") =>
                    setup.message = r.errCode
              /\ (~r.json \/ ~r.error \/ (r.description = "" /\ r.errCode = "")) =>
                    setup.message \in GenericMessages

\* The tokens the requests of caller d carried that were answered with 401.
RejectedTokens(d) ==
    {rq[d].sent[i] :
        i \in {k \in 1..Len(rq[d].sent) :
                  \/ k = 1 /\ rq[d].first_resp.status = 401
                  \/ k = 2 /\ rq[d].retry_resp.status = 401}}

\* C29: a token that a request carried and that was answered with 401 is
\* not carried by any request sent afterwards, also when the sign-in that
\* follows the 401 fails.
C29_RejectedTokenNeverResent ==
    [][\A c, d \in Callers :
          Len(rq'[c].sent) > Len(rq[c].sent) =>
              rq'[c].sent[Len(rq'[c].sent)] \notin RejectedTokens(d)]_vars

\* The unwrap rule the endpoint table gives each section.
ResultSections ==
    {"status", "device", "settings", "technical_status", "maintenance_diagnostics",
     "notifications", "unread_notifications_count"}
\* A body {"result": d} stored whole.
Wrapped(d) == [kind |-> "wrapped", doc |-> d]

\* C30: each section is stored by its own fixed rule: the sections of
\* ResultSections hold the response's "result" member (the empty mapping
\* when the body has none), the other four hold the body as it came, also
\* when the body has a "result" member.
C30_FixedUnwrapRules ==
    \A s \in Sections :
        /\ fetched[s] = "payload" =>
              results[s] = IF s \in ResultSections THEN PayloadOf(DeviceDoc(s))
                           ELSE Wrapped(DeviceDoc(s))
        /\ fetched[s] = "raw" =>
              results[s] = IF s \in ResultSections THEN EmptyMap
                           ELSE PayloadOf(DeviceDoc(s))


\* The parameter keys a command name requires.
RequiredKeys(cmd) ==
    CASE cmd \in {"SET_CHARGE", "SET_DISCHARGE"} -> {"action", "power", "soc"}
      [] cmd = "SET_PEAK_SHAVING" -> {"maxHousePeakConsumption"}
      [] cmd = "SET_FREQUENCY_REGULATION" -> {"optimalSoc"}
      [] OTHER -> {}
\* The key is there: the record has it, and with a value other than Absent
\* ("action" holds a string whenever the record has it).
HasKey(params, k) ==
    /\ k \in DOMAIN params
    /\ (k = "action" \/ params[k] # Absent)
CarriesRequiredKeys(mode) ==
    \A k \in RequiredKeys(mode.command) : HasKey(mode.parameters, k)

\* C31: every mode request that is submitted, the defaultMode written into
\* the settings document and the immediate command alike, carries the
\* parameter keys its command requires.
C31_ModeCarriesRequiredKeys ==
    \A t \in Tasks :
        /\ (task[t].op = "default_mode" /\ task[t].body # NoDoc) =>
              CarriesRequiredKeys(task[t].body.defaultMode)
        /\ (task[t].op = "current_mode" /\ task[t].command # NoDoc) =>
              CarriesRequiredKeys(task[t].command)


\* C32: a submission that passes the validation, to a device that accepts
\* the credentials, ends with the config entry created, after a sign-in whose
\* body carried the user type the account was configured with.
C32_SignInCarriesUserType ==
    ( /\ flow.submits > 0
      /\ ~(flow.user_type = "tech" /\ flow.inverter_sn = "")
      /\ SignInSucceeds(flow.device) ) =>
        /\ flow.result = "entry"
        /\ flow.sent_user_type = flow.user_type


\* C33: the published snapshot changes only in the step in which a poll
\* cycle replaces it as a whole; no step of a command or of a settings
\* patch changes it or a document in it.
C33_SnapshotOnlyReplacedByCycle ==
    [][data' # data =>
          /\ task' = task
          /\ \E ov \in CycleOutcomes : data' = CycleResult(ov)]_vars

\* A patch holds its normalized, edited body while the snapshot's settings
\* section still holds the document as the device served it.
C33_Witness ==
    \E t \in Tasks :
        /\ task[t].pc = "put" /\ task[t].op \in PatchOps
        /\ HasPayload("settings")
        /\ data["settings"].doc = task[t].fetched
        /\ task[t].body # data["settings"].doc
        /\ task[t].body.country # data["settings"].doc.country


\* C34: every request make_request has sent, first attempt or retry,
\* carried a token, and one that a successful sign-in had handed out; a call
\* whose sign-in in ensure_token_valid failed has sent no request.
C34_NoRequestWithoutToken ==
    \A c \in Callers :
        /\ Len(rq[c].sent) = rq[c].sends
        /\ \A i \in 1..Len(rq[c].sent) :
              rq[c].sent[i] # NoToken /\ rq[c].sent[i] \in 1..issued
        /\ rq[c].result.kind \in ConnectErrors => rq[c].sent = <<>>

\* A request is out with the token its own call's sign-in just obtained.
C34_Witness ==
    \E c \in Callers :
        /\ rq[c].pc = "wait1"
        /\ rq[c].signin = SignInGranted
        /\ rq[c].sent = <<access_token>>
        /\ access_token # NoToken


\* C35: the retry after a 401 is sent only after a re-authentication that
\* succeeded, with the token held at that moment, which is not the token
\* the 401 rejected; when the re-authentication fails the call sends
\* nothing more and returns a failure object.
C35_RetryCarriesNewToken ==
    [][\A c \in Callers :
          /\ (Len(rq[c].sent) = 1 /\ Len(rq'[c].sent) = 2) =>
                /\ rq[c].reauth_ok
                /\ rq'[c].sent[2] = access_token
                /\ rq'[c].sent[2] # rq[c].sent[1]
          /\ (/\ rq[c].pc = "auth1" /\ rq'[c].pc # "auth1"
              /\ ~SignInSucceeds(rq'[c].signin)) =>
                /\ rq'[c].pc = "done"
                /\ rq'[c].sent = rq[c].sent
                /\ rq'[c].result = Failure(NoStatus)]_vars

\* A retry is out with a token other than the one the 401 rejected.
C35_Witness ==
    \E c \in Callers :
        /\ rq[c].pc = "wait2"
        /\ Len(rq[c].sent) = 2
        /\ rq[c].sent[2] # rq[c].sent[1]
        /\ rq[c].sent[2] = access_token



\* An operation on entity e that has not terminated yet.
RunningOn(t, e) ==
    /\ task[t].pc \notin {"idle", "done"}
    /\ EntityOf(task[t].op) = e

\* C36: whenever no operation on an entity that keeps an optimistic value is
\* running any more (each has returned, raised or given up after the failed
\* pre-fetch), the entity holds no optimistic value.
C36_TerminatedOpsLeaveNoOptimistic ==
    \A e \in OptimisticEntities :
        (\A t \in DOMAIN task : ~RunningOn(t, e)) => optimistic[e] = NoValue

\* Two overlapping operations on one entity have both terminated, one of
\* them by its except block, and no poll cycle has replaced the snapshot in
\* between.
C36_Witness ==
    /\ \A t \in RaceTasks : t \in DOMAIN task /\ task[t].pc = "done"
    /\ EntityOf(task["t1"].op) = EntityOf(task["t2"].op)
    /\ EntityOf(task["t1"].op) \in OptimisticEntities
    /\ task["t1"].error
    /\ ~task["t2"].error
    /\ data = NoData



\* The value operation t asked for.
Requested(t) == RequestedValue(task[t].op, task[t].arg)

\* The step is a coordinator update (the only step that leaves every
\* operation where it is), or it starts an operation on entity e.
UpdateStep == task' = task
StartsOn(e) == \E u \in DOMAIN task : Starts(u, e)

\* C37: an optimistic value is cleared only by a coordinator update or by
\* the completion of the operation that set it, and while an operation stays
\* in flight with its requested value held for reading, every step that is
\* neither a coordinator update nor the start of a newer operation on the
\* entity leaves that value held; also when two operations on the entity
\* overlap.
C37_InFlightValueStays ==
    [][\A e \in OptimisticEntities :
          /\ (optimistic[e] # NoValue /\ optimistic'[e] = NoValue /\ ~UpdateStep) =>
                \E t \in DOMAIN task :
                    /\ RunningOn(t, e)
                    /\ Requested(t) = optimistic[e]
                    /\ task'[t].pc = "done"
          /\ \A t \in DOMAIN task :
                (/\ RunningOn(t, e)
                 /\ task'[t].pc \notin {"idle", "done"}
                 /\ optimistic[e] = Requested(t)
                 /\ ~UpdateStep
                 /\ ~StartsOn(e)) => optimistic'[e] = Requested(t)]_vars



\* The alert ids of the events triggered so far.
FiredIds(ev) == {ev.fired[i] : i \in 1..Len(ev.fired)}
TimesFired(ev, id) == Cardinality({i \in 1..Len(ev.fired) : ev.fired[i] = id})

\* C38: over any sequence of coordinator updates the notification event
\* entity triggers at most one event per alert id and none for an alert the
\* snapshot held when the entity was added, and a coordinator update after
\* that triggers one event for every alert id the snapshot shows for the
\* first time.
C38_OneEventPerNewAlert ==
    [][/\ \A id \in AlertIds : TimesFired(event', id) <= 1
       /\ event'.primed => event'.at_add \cap FiredIds(event') = {}
       /\ (event.primed /\ event'.updates = event.updates + 1) =>
             \A id \in AlertIdsOf(event'.notifications) \ event.shown :
                 /\ id \notin FiredIds(event)
                 /\ TimesFired(event', id) = 1]_vars

\* The entity was added while the snapshot held alert a1; a2 arrived in a
\* later update and has been shown again since: one event, for a2.
C38_Witness ==
    /\ event.primed
    /\ event.at_add = {"a1"}
    /\ event.fired = <<"a2">>
    /\ event.updates = MaxUpdates
    /\ AlertIdsOf(event.notifications) = {"a1", "a2"}

=============================================================================
